---- MODULE Spec2Model ----
(***************************************************************************)
(* Model of msn-weather-wrapper: the extraction pipeline of                *)
(* src/src/msn_weather_wrapper/client.py (structured-payload extractor,    *)
(* heuristic extractors, range validation of models.WeatherData, the       *)
(* tenacity retry wrapper around get_weather), and, of src/api.py, the     *)
(* time-bucketed response cache and the recent searches the weather        *)
(* endpoints record.                                                       *)
(*                                                                         *)
(* Numbers that the code rounds to one decimal (temperature, wind speed)   *)
(* are kept in tenths: 222 stands for 22.2.                                *)
(***************************************************************************)
EXTENDS Integers, Sequences, FiniteSets, TLC

VARIABLES
    html,       \* the document handed to the extractors
    fetches,    \* what the fetch collaborator answers to the 1st, 2nd, ... attempt
    ret,        \* the result of the last client operation applied
    now,        \* wall clock, in minutes
    cache,      \* lru_cache of get_cached_weather, most recently used first
    last,       \* the response of the last weather request handled by the API
    frozen,     \* the last failure computed since the clock last moved
    session,    \* the caller's Flask session (a cookie the caller sends back)
    recent_searches, \* session id -> that session's searches, newest first
    inflight,   \* worker thread -> the request it is handling, if any
    lookup,     \* the coordinates handed to the client and the geocoder's answer
    args,       \* the arguments of the last call of validate_input or weather request
    weather_client \* app.weather_client: is it set, was close() called on it

vars == <<html, fetches, ret, now, cache, last, frozen, session, recent_searches,
          inflight, lookup, args, weather_client>>

(***************************************************************************)
(* Bounds                                                                  *)
(***************************************************************************)
\* number of <script type="application/json"> blocks in a document
MaxBlocks == 2
\* length of the fetch collaborator's script (one answer per attempt)
MaxFetches == 4
\* lru_cache(maxsize=1000) of src/api.py:110, scaled down
LruMaxSize == 2
\* deque(maxlen=10) of src/api.py:481, scaled down
RecentMaxLen == 2
\* number of entries of a block's hourly list
MaxHourly == 2
\* number of worker threads that handle requests at the same time
MaxThreads == 2
\* length of the strings handed to validate_input
MaxNameLength == 3
\* largest temperature of a structured payload, in degrees Fahrenheit either
\* side of zero
MaxFahrenheit == 100
\* largest wind speed of a structured payload, in mph
MaxMph == 12

(***************************************************************************)
(* Python values, exceptions and outcomes of a call                        *)
(***************************************************************************)
None == [type |-> "NoneType"]

\* the classes an exception class derives from (itself included)
Bases(cls) ==
    CASE cls = "WeatherError"          -> {"WeatherError", "Exception"}
      [] cls = "UpstreamError"         -> {"UpstreamError", "WeatherError", "Exception"}
      [] cls = "ParsingError"          -> {"ParsingError", "WeatherError", "Exception"}
      [] cls = "LocationNotFoundError" -> {"LocationNotFoundError", "WeatherError", "Exception"}
      [] cls = "ValidationError"       -> {"ValidationError", "ValueError", "Exception"}
      [] cls = "JSONDecodeError"       -> {"JSONDecodeError", "ValueError", "Exception"}
      [] cls = "ValueError"            -> {"ValueError", "Exception"}
      [] cls = "KeyError"              -> {"KeyError", "LookupError", "Exception"}
      [] cls = "AttributeError"        -> {"AttributeError", "Exception"}
      [] cls = "TypeError"             -> {"TypeError", "Exception"}
      [] cls = "OverflowError"         -> {"OverflowError", "ArithmeticError", "Exception"}
      [] cls = "Timeout"               -> {"Timeout", "RequestException", "OSError", "Exception"}
      [] cls = "ConnectionError"       -> {"ConnectionError", "RequestException", "OSError", "Exception"}
      [] cls = "TimeoutException"      -> {"TimeoutException", "HTTPError", "Exception"}
      [] cls = "ConnectError"          -> {"ConnectError", "HTTPError", "Exception"}
      [] cls = "RetryError"            -> {"RetryError", "Exception"}
      [] cls = "GeocoderTimedOut"      -> {"GeocoderTimedOut", "GeocoderServiceError",
                                           "GeopyError", "Exception"}
      [] cls = "GeocoderUnavailable"   -> {"GeocoderUnavailable", "GeocoderServiceError",
                                           "GeopyError", "Exception"}
      [] OTHER                         -> {cls}

IsInstance(cls, base) == base \in Bases(cls)

Raise(cls, msg) == [kind |-> "raise", cls |-> cls, msg |-> msg]
Return(v)       == [kind |-> "return", val |-> v]
Continue        == [kind |-> "continue"]

\* round(a / b, 0) for b > 0 (to nearest)
RoundDiv(a, b) == (2 * a + b) \div (2 * b)

(***************************************************************************)
(* Documents.  A document is the list of its <script                       *)
(* type="application/json"> blocks, in document order, and what the        *)
(* heuristic extractors can find in its markup and text.                   *)
(*                                                                         *)
(* A JSON value is [k, v]: "absent" (key missing), "int" (integer v),      *)
(* "bigint" (an integer literal beyond the range of a float), "numstr" (a  *)
(* string holding the numeral v), "pctstr" (the numeral v followed by %),  *)
(* "text" (a string holding no numeral).                                   *)
(***************************************************************************)
JsonAbsent    == [k |-> "absent", v |-> 0]
JsonInt(n)    == [k |-> "int", v |-> n]
JsonBigInt    == [k |-> "bigint", v |-> 0]
JsonNumStr(n) == [k |-> "numstr", v |-> n]
JsonPctStr(n) == [k |-> "pctstr", v |-> n]
JsonText      == [k |-> "text", v |-> 0]

Temperatures == {JsonInt(72), JsonAbsent, JsonBigInt}
Humidities   == {JsonPctStr(65), JsonPctStr(150), JsonText}
WindSpeeds   == {JsonNumStr(10), JsonNumStr(-5)}

\* an entry of the hourly list: the fields the extractor reads from it
Entries ==
    [temperature : Temperatures, cap : {"Sunny"}, humidity : Humidities,
     windSpeed : WindSpeeds]

\* shape "malformed": the block is not JSON; "nopath": JSON without the
\* WeatherData._@STATE@_.forecast[0].hourly list; "hourly": JSON with that
\* list, whose entries, in order, are hourly
Blocks ==
    [shape : {"malformed", "nopath"}, hourly : {<<>>}]
    \cup
    [shape : {"hourly"}, hourly : {<<>>} \cup {<<current>> : current \in Entries}]

\* what the selectors and patterns of the heuristic extractors match
TextTemps == {[found |-> FALSE, v |-> 0, fahrenheit |-> FALSE],
              [found |-> TRUE, v |-> 72, fahrenheit |-> TRUE]}
TextHumidities == {[found |-> FALSE, v |-> 0], [found |-> TRUE, v |-> 65],
                   [found |-> TRUE, v |-> 150]}
TextWinds == {[found |-> FALSE, v |-> 0, unit |-> "km/h"],
              [found |-> TRUE, v |-> 10, unit |-> "mph"]}
TextConds == {"", "Partly Cloudy"}

SeqUpTo(S, n) == UNION {[1..m -> S] : m \in 0..n}

Pages ==
    [scripts : SeqUpTo(Blocks, MaxBlocks), temp : TextTemps,
     humidity : TextHumidities, wind : TextWinds, cond : TextConds]

Location(city, country) ==
    [city |-> city, country |-> country, latitude |-> None, longitude |-> None]

\* a model without the Field constraints
WeatherDataUnchecked(location, temperature, condition, humidity, wind_speed) ==
    Return([type |-> "WeatherData", location |-> location,
            temperature |-> temperature, condition |-> condition,
            humidity |-> humidity, wind_speed |-> wind_speed])

(***************************************************************************)
(* models.WeatherData: pydantic checks the Field constraints on            *)
(* construction and raises ValidationError, a ValueError                   *)
(***************************************************************************)
WeatherData(location, temperature, condition, humidity, wind_speed) ==
    LET bad == (IF humidity < 0 \/ humidity > 100 THEN <<"humidity">> ELSE <<>>)
               \o (IF wind_speed < 0 THEN <<"wind_speed">> ELSE <<>>)
    IN  IF bad # <<>>
        THEN Raise("ValidationError", <<"validation error for WeatherData">> \o bad)
        ELSE Return([type |-> "WeatherData", location |-> location,
                     temperature |-> temperature, condition |-> condition,
                     humidity |-> humidity, wind_speed |-> wind_speed])

(***************************************************************************)
(* BaseWeatherClient._extract_weather_from_json                            *)
(***************************************************************************)
\* float(x)
PyFloat(x) ==
    CASE x.k \in {"int", "numstr"} -> Return(x.v)
      [] x.k = "bigint"            -> Raise("OverflowError", <<"int too large to convert to float">>)
      [] x.k \in {"pctstr", "text"} -> Raise("ValueError", <<"could not convert string to float">>)

\* int(str(x).rstrip("%"))
PyIntStripPercent(x) ==
    CASE x.k \in {"int", "numstr", "pctstr"} -> Return(x.v)
      [] x.k = "text" -> Raise("ValueError", <<"invalid literal for int() with base 10">>)

\* dict.get(key, default)
DictGet(x, default) == IF x.k = "absent" THEN default ELSE x

\* a conversion that cuts the second decimal off instead of rounding
FahrenheitToCelsiusTruncated(temp_f) == ((temp_f - 32) * 50) \div 9

\* round((temp_f - 32) * 5 / 9, 1) and round(wind_mph * 1.60934, 1), in tenths
FahrenheitToCelsius(temp_f) == RoundDiv((temp_f - 32) * 50, 9)
MphToKmh(wind_mph) == RoundDiv(wind_mph * 160934, 10000)

\* a loop body that reads the last entry of the hourly list
ParseBlockLastEntry(script) ==
    IF script.shape = "malformed" THEN Raise("JSONDecodeError", <<"Expecting value">>)
    ELSE IF script.shape = "nopath" THEN Continue
    ELSE IF Len(script.hourly) = 0 THEN Continue
    ELSE
      LET current  == script.hourly[Len(script.hourly)]
          temp_f   == PyFloat(DictGet(current.temperature, JsonInt(0)))
          humidity == PyIntStripPercent(DictGet(current.humidity, JsonNumStr(50)))
          wind_mph == PyFloat(DictGet(current.windSpeed, JsonNumStr(0)))
      IN  IF temp_f.kind = "raise" THEN temp_f
          ELSE IF humidity.kind = "raise" THEN humidity
          ELSE IF wind_mph.kind = "raise" THEN wind_mph
          ELSE Return([type |-> "dict",
                       temperature |-> FahrenheitToCelsius(temp_f.val),
                       condition |-> IF current.cap # "" THEN current.cap ELSE "Unknown",
                       humidity |-> humidity.val,
                       wind_speed |-> MphToKmh(wind_mph.val)])

\* the body of the loop over the script blocks, for one block
ParseBlock(script) ==
    IF script.shape = "malformed" THEN Raise("JSONDecodeError", <<"Expecting value">>)
    ELSE IF script.shape = "nopath" THEN Continue
    ELSE IF Len(script.hourly) = 0 THEN Continue
    ELSE
      LET current  == script.hourly[1]
          temp_f   == PyFloat(DictGet(current.temperature, JsonInt(0)))
          humidity == PyIntStripPercent(DictGet(current.humidity, JsonNumStr(50)))
          wind_mph == PyFloat(DictGet(current.windSpeed, JsonNumStr(0)))
      IN  IF temp_f.kind = "raise" THEN temp_f
          ELSE IF humidity.kind = "raise" THEN humidity
          ELSE IF wind_mph.kind = "raise" THEN wind_mph
          ELSE Return([type |-> "dict",
                       temperature |-> FahrenheitToCelsius(temp_f.val),
                       condition |-> IF current.cap # "" THEN current.cap ELSE "Unknown",
                       humidity |-> humidity.val,
                       wind_speed |-> MphToKmh(wind_mph.val)])

\* the exception classes of the per-block except clause
BlockCaught ==
    {"JSONDecodeError", "KeyError", "ValueError", "AttributeError", "TypeError"}

Catches(classes, exc) == \E base \in classes : IsInstance(exc.cls, base)

\* the for loop from block i on; a raise is one that left the inner try
RECURSIVE ScanScripts(_, _)
ScanScripts(scripts, i) ==
    LET Block(r) ==
            CASE r.kind = "continue" -> ScanScripts(scripts, i + 1)
              [] r.kind = "return"   -> r
              [] r.kind = "raise"    ->
                   IF Catches(BlockCaught, r) THEN ScanScripts(scripts, i + 1)
                   ELSE r
    IN  IF i > Len(scripts) THEN Return(None)
        ELSE Block(ParseBlock(scripts[i]))

extract_weather_from_json(doc) ==
    LET Outer(r) ==
            IF r.kind = "raise" /\ Catches({"Exception"}, r) THEN Return(None) ELSE r
    IN  Outer(ScanScripts(doc.scripts, 1))

(***************************************************************************)
(* The heuristic extractors                                                *)
(***************************************************************************)
\* an extractor that falls back on a default, as the other three do
extract_temperature_default(doc) ==
    IF doc.temp.found
    THEN Return(IF doc.temp.fahrenheit
                THEN RoundDiv((doc.temp.v - 32) * 50, 9)
                ELSE doc.temp.v * 10)
    ELSE Return(0)

\* temp.found: an element matched by the temperature selectors holds a
\* numeric token; v: the first such token; fahrenheit: its text holds an F
extract_temperature(doc) ==
    IF doc.temp.found
    THEN Return(IF doc.temp.fahrenheit
                THEN RoundDiv((doc.temp.v - 32) * 50, 9)
                ELSE doc.temp.v * 10)
    ELSE Raise("ValueError", <<"Could not extract temperature from page">>)

extract_condition(doc) == IF doc.cond # "" THEN doc.cond ELSE "Unknown"

\* an extractor that answers 0 when it finds no humidity
extract_humidity_zero(doc) == IF doc.humidity.found THEN doc.humidity.v ELSE 0

extract_humidity(doc) == IF doc.humidity.found THEN doc.humidity.v ELSE 50

extract_wind_speed(doc) ==
    IF doc.wind.found
    THEN CASE doc.wind.unit = "mph"  -> RoundDiv(doc.wind.v * 160934, 10000)
           [] doc.wind.unit = "m/s"  -> doc.wind.v * 36
           [] doc.wind.unit = "km/h" -> doc.wind.v * 10
    ELSE 0

(***************************************************************************)
(* BaseWeatherClient._parse_weather_response                               *)
(***************************************************************************)
\* truth value of the extractor's result in "if weather_data:"
Truthy(v) == v.type # "NoneType"

\* the two extraction paths tried in the opposite order
parse_weather_response_heuristic_first(doc, location) ==
    LET Body(weather_data, temperature) ==
            IF temperature.kind = "return"
            THEN [res |-> WeatherData(location, temperature.val, extract_condition(doc),
                                      extract_humidity(doc), extract_wind_speed(doc)),
                  heuristic |-> TRUE]
            ELSE IF Truthy(weather_data)
            THEN [res |-> WeatherData(location, weather_data.temperature,
                                      weather_data.condition, weather_data.humidity,
                                      weather_data.wind_speed),
                  heuristic |-> TRUE]
            ELSE [res |-> Raise("ParsingError",
                                <<"Failed to parse weather data: ">> \o temperature.msg),
                  heuristic |-> TRUE]
    IN  Body(extract_weather_from_json(doc).val, extract_temperature(doc))

\* res: what the call returns or raises; heuristic: whether the heuristic
\* extractors were run
parse_weather_response(doc, location) ==
    LET Except(tried) ==
            IF tried.kind = "raise" /\ Catches({"ValueError"}, tried)
            THEN Raise("ParsingError", <<"Failed to parse weather data: ">> \o tried.msg)
            ELSE tried
        Try(temperature) ==
            IF temperature.kind = "raise" THEN temperature
            ELSE WeatherData(location, temperature.val, extract_condition(doc),
                             extract_humidity(doc), extract_wind_speed(doc))
        Body(weather_data) ==
            IF Truthy(weather_data)
            THEN [res |-> WeatherData(location, weather_data.temperature,
                                      weather_data.condition, weather_data.humidity,
                                      weather_data.wind_speed),
                  heuristic |-> FALSE]
            ELSE [res |-> Except(Try(extract_temperature(doc))),
                  heuristic |-> TRUE]
    IN  Body(extract_weather_from_json(doc).val)

(***************************************************************************)
(* WeatherClient.get_weather and AsyncWeatherClient.get_weather under the  *)
(* tenacity retry decorator                                                *)
(***************************************************************************)
\* one answer of the fetch collaborator: the page, or a transport error
FetchResults ==
    {[kind |-> "ok", err |-> ""], [kind |-> "error", err |-> "timeout"],
     [kind |-> "error", err |-> "refused"]}

\* the exception session.get / client.get raises for a transport error
TransportError(client, err) ==
    IF client = "sync"
    THEN CASE err = "timeout" -> Raise("Timeout", <<"Read timed out.">>)
           [] err = "refused" -> Raise("ConnectionError", <<"Connection refused">>)
    ELSE CASE err = "timeout" -> Raise("TimeoutException", <<"Read timed out.">>)
           [] err = "refused" -> Raise("ConnectError", <<"Connection refused">>)

\* requests.RequestException for the synchronous client, httpx.HTTPError for
\* the asynchronous one
TransportBase(client) == IF client = "sync" THEN "RequestException" ELSE "HTTPError"

\* the decorated function's body: one fetch, then the extraction
get_weather_body(client, location, fetch, doc) ==
    IF fetch.kind = "error"
    THEN LET e == TransportError(client, fetch.err)
         IN  IF Catches({TransportBase(client)}, e)
             THEN Raise("UpstreamError",
                        <<"Failed to fetch weather data from MSN: ">> \o e.msg)
             ELSE e
    ELSE parse_weather_response(doc, location).res

\* a predicate that retries whatever the attempt raised
retry_if_any_exception(client, retry_state) == retry_state.outcome.kind = "raise"

\* retry=lambda e: isinstance(e, requests.RequestException): tenacity calls
\* the predicate with the RetryCallState of the attempt
retry_predicate(client, retry_state) == IsInstance(retry_state.cls, TransportBase(client))

\* stop=stop_after_attempt(3)
stop_after_attempt(attempt_number) == attempt_number >= 3

\* the retry loop from attempt attempt_number on; attempts counts the fetches
RECURSIVE Retrying(_, _, _, _, _)
Retrying(client, location, doc, script, attempt_number) ==
    LET Iter(retry_state) ==
            IF ~ retry_predicate(client, retry_state)
            THEN [res |-> retry_state.outcome, attempts |-> attempt_number]
            ELSE IF stop_after_attempt(attempt_number)
            THEN [res |-> Raise("RetryError", <<"RetryError">>),
                  attempts |-> attempt_number]
            ELSE Retrying(client, location, doc, script, attempt_number + 1)
    IN  Iter([cls |-> "RetryCallState", attempt_number |-> attempt_number,
              outcome |-> get_weather_body(client, location,
                                           script[attempt_number], doc)])

\* no client operation applied
NoRet == [op |-> "none", res |-> Return(None), heuristic |-> FALSE, attempts |-> 0]

WeatherClient_get_weather(location, doc, script) ==
    Retrying("sync", location, doc, script, 1)

AsyncWeatherClient_get_weather(location, doc, script) ==
    Retrying("async", location, doc, script, 1)

Seattle == Location("Seattle", "USA")

(***************************************************************************)
(* BaseWeatherClient._reverse_geocode_to_location and the two              *)
(* get_weather_by_coordinates                                              *)
(***************************************************************************)
\* a float that is a whole number of degrees
Float(x) == [type |-> "float", v |-> x]

\* Location(city=..., country=..., latitude=..., longitude=...)
LocationAt(city, country, latitude, longitude) ==
    [city |-> city, country |-> country,
     latitude |-> Float(latitude), longitude |-> Float(longitude)]

\* the keys of the geocoder's address dict that the code reads
AddressKeys == {"city", "town", "village", "county", "country"}

\* address.get(key) is truthy: the key is there with a non-empty string
HasText(address, key) == key \in DOMAIN address /\ address[key] # ""

\* a chain that asks for the town before the city
AddressCityTownFirst(address) ==
    IF HasText(address, "town") THEN address["town"]
    ELSE IF HasText(address, "city") THEN address["city"]
    ELSE IF HasText(address, "village") THEN address["village"]
    ELSE IF HasText(address, "county") THEN address["county"]
    ELSE "Unknown"

\* address.get("city") or address.get("town") or address.get("village")
\* or address.get("county") or "Unknown"
AddressCity(address) ==
    IF HasText(address, "city") THEN address["city"]
    ELSE IF HasText(address, "town") THEN address["town"]
    ELSE IF HasText(address, "village") THEN address["village"]
    ELSE IF HasText(address, "county") THEN address["county"]
    ELSE "Unknown"

\* address.get("country", "Unknown")
AddressCountry(address) ==
    IF "country" \in DOMAIN address THEN address["country"] ELSE "Unknown"

SeattleAddress == ("city" :> "Seattle") @@ ("country" :> "USA")

NoAddress == [k \in {} |-> ""]

\* what the geocoder answers
GeocoderFound(address) == [kind |-> "found", address |-> address, err |-> ""]
GeocoderNone           == [kind |-> "none", address |-> NoAddress, err |-> ""]
GeocoderFailed(err)    == [kind |-> "error", address |-> NoAddress, err |-> err]

\* no coordinates handed to the client
NoLookup == [geo |-> GeocoderNone, latitude |-> 0, longitude |-> 0]

\* self.geocoder.reverse(...): a failure of the geocoder
GeocoderError(err) ==
    CASE err = "timeout"     -> Raise("GeocoderTimedOut", <<"Service timed out">>)
      [] err = "unavailable" -> Raise("GeocoderUnavailable", <<"Service not available">>)

\* the try block: geo is what the geocoder answers, kind "none" (no
\* result), "found" (a result with an address dict) or "error"
reverse_geocode_try(geo, latitude, longitude) ==
    CASE geo.kind = "error" -> GeocoderError(geo.err)
      [] geo.kind = "none"  ->
           Raise("LocationNotFoundError",
                 <<"Could not determine location for coordinates ",
                   ToString(latitude), ", ", ToString(longitude)>>)
      [] geo.kind = "found" ->
           Return(LocationAt(AddressCity(geo.address), AddressCountry(geo.address),
                             latitude, longitude))

\* a helper that wraps every failure alike
reverse_geocode_wrap_all(geo, latitude, longitude) ==
    LET Except(tried) ==
            IF tried.kind = "raise" /\ Catches({"Exception"}, tried)
            THEN Raise("WeatherError",
                       <<"Failed to reverse geocode coordinates: ">> \o tried.msg)
            ELSE tried
    IN  Except(reverse_geocode_try(geo, latitude, longitude))

reverse_geocode_to_location(geo, latitude, longitude) ==
    LET Except(tried) ==
            IF tried.kind = "raise" /\ Catches({"LocationNotFoundError"}, tried)
            THEN tried
            ELSE IF tried.kind = "raise" /\ Catches({"Exception"}, tried)
            THEN Raise("WeatherError",
                       <<"Failed to reverse geocode coordinates: ">> \o tried.msg)
            ELSE tried
    IN  Except(reverse_geocode_try(geo, latitude, longitude))

\* a body that fetches for a placeholder location first and resolves the
\* coordinates afterwards
get_weather_by_coordinates_fetch_first(client, geo, latitude, longitude, doc, script) ==
    LET Then(fetched, location) ==
            IF location.kind = "raise"
            THEN [res |-> location, attempts |-> fetched.attempts, located |-> location]
            ELSE [res |-> IF fetched.res.kind = "return"
                          THEN Return([fetched.res.val EXCEPT !.location = location.val])
                          ELSE fetched.res,
                  attempts |-> fetched.attempts, located |-> location]
    IN  Then(Retrying(client, Location("Unknown", "Unknown"), doc, script, 1),
             reverse_geocode_to_location(geo, latitude, longitude))

\* location = self._reverse_geocode_to_location(latitude, longitude);
\* return self.get_weather(location).  located: what the first call did
get_weather_by_coordinates_body(client, geo, latitude, longitude, doc, script) ==
    LET Then(location) ==
            IF location.kind = "raise"
            THEN [res |-> location, attempts |-> 0, located |-> location]
            ELSE Retrying(client, location.val, doc, script, 1)
                     @@ [located |-> location]
    IN  Then(reverse_geocode_to_location(geo, latitude, longitude))

WeatherClient_get_weather_by_coordinates(geo, latitude, longitude, doc, script) ==
    get_weather_by_coordinates_body("sync", geo, latitude, longitude, doc, script)

AsyncWeatherClient_get_weather_by_coordinates(geo, latitude, longitude, doc, script) ==
    get_weather_by_coordinates_body("async", geo, latitude, longitude, doc, script)

(***************************************************************************)
(* Sample documents                                                        *)
(***************************************************************************)
GoodEntry ==
    [temperature |-> JsonInt(72), cap |-> "Sunny", humidity |-> JsonPctStr(65),
     windSpeed |-> JsonNumStr(10)]

GoodBlock == [shape |-> "hourly", hourly |-> <<GoodEntry>>]

NoText ==
    [temp |-> [found |-> FALSE, v |-> 0, fahrenheit |-> FALSE],
     humidity |-> [found |-> FALSE, v |-> 0],
     wind |-> [found |-> FALSE, v |-> 0, unit |-> "km/h"], cond |-> ""]

\* a page with a structured payload, one with text only, one with the
\* condition and no temperature, one whose payload has humidity 150%
StructuredPage == [scripts |-> <<GoodBlock>>] @@ NoText

TextPage ==
    [scripts |-> <<>>, temp |-> [found |-> TRUE, v |-> 72, fahrenheit |-> TRUE],
     humidity |-> [found |-> TRUE, v |-> 65],
     wind |-> [found |-> TRUE, v |-> 10, unit |-> "mph"], cond |-> "Partly Cloudy"]

NoTemperaturePage == [scripts |-> <<>>, cond |-> "Partly Cloudy"] @@ NoText

BadHumidityPage ==
    [scripts |-> <<[GoodBlock EXCEPT !.hourly[1].humidity = JsonPctStr(150)]>>] @@ NoText

SamplePages == {StructuredPage, TextPage, NoTemperaturePage, BadHumidityPage}

(***************************************************************************)
(* src/api.py: validate_input.  A str is [type |-> "str", s |-> text]; the *)
(* characters of the international ranges of VALID_NAME_PATTERN do not     *)
(* occur in the texts considered.                                          *)
(***************************************************************************)
Str(s)   == [type |-> "str", s |-> s]
PyInt(n) == [type |-> "int", v |-> n]

MAX_CITY_LENGTH    == 100
MAX_COUNTRY_LENGTH == 100

\* characters that str.strip() removes and that \s matches
Whitespace == {" ", "\t"}

AsciiLetters ==
    {"a", "b", "c", "d", "e", "f", "g", "h", "i", "j", "k", "l", "m",
     "n", "o", "p", "q", "r", "s", "t", "u", "v", "w", "x", "y", "z",
     "A", "B", "C", "D", "E", "F", "G", "H", "I", "J", "K", "L", "M",
     "N", "O", "P", "Q", "R", "S", "T", "U", "V", "W", "X", "Y", "Z"}

\* the character class of VALID_NAME_PATTERN
AllowedCharacters == AsciiLetters \cup Whitespace \cup {"-", ".", ",", "'"}

\* VALID_NAME_PATTERN.match(value): ^[...]+$
ValidNamePattern(value) ==
    /\ Len(value) > 0
    /\ \A i \in 1..Len(value) : SubSeq(value, i, i) \in AllowedCharacters

\* str.strip()
RECURSIVE LStrip(_)
LStrip(s) ==
    IF s = "" THEN ""
    ELSE IF Head(s) \in Whitespace THEN LStrip(Tail(s))
    ELSE s

RECURSIVE RStrip(_)
RStrip(s) ==
    IF s = "" THEN ""
    ELSE IF SubSeq(s, Len(s), Len(s)) \in Whitespace THEN RStrip(SubSeq(s, 1, Len(s) - 1))
    ELSE s

PyStrip(s) == RStrip(LStrip(s))

\* a validation that does not strip the value
validate_input_unstripped(value, field_name, max_length) ==
    LET Checks(v) ==
            IF v = ""
            THEN <<None, Str(field_name \o " cannot be empty or only whitespace")>>
            ELSE IF Len(v) > max_length
            THEN <<None, Str(field_name \o " exceeds maximum length of "
                             \o ToString(max_length) \o " characters")>>
            ELSE IF ~ ValidNamePattern(v)
            THEN <<None, Str(field_name \o " contains invalid characters")>>
            ELSE <<Str(v), None>>
    IN  IF value.type # "str"
        THEN <<None, Str(field_name \o " must be a string")>>
        ELSE Checks(value.s)

\* the pair (sanitized_value, error_message)
validate_input(value, field_name, max_length) ==
    LET Checks(v) ==
            IF v = ""
            THEN <<None, Str(field_name \o " cannot be empty or only whitespace")>>
            ELSE IF Len(v) > max_length
            THEN <<None, Str(field_name \o " exceeds maximum length of "
                             \o ToString(max_length) \o " characters")>>
            ELSE IF ~ ValidNamePattern(v)
            THEN <<None, Str(field_name \o " contains invalid characters")>>
            ELSE <<Str(v), None>>
    IN  IF value.type # "str"
        THEN <<None, Str(field_name \o " must be a string")>>
        ELSE Checks(PyStrip(value.s))

\* no call of validate_input
NoArgs == [value |-> None, field_name |-> "", max_length |-> 0]

(***************************************************************************)
(* src/api.py: get_cached_weather under functools.lru_cache                *)
(***************************************************************************)
\* minute_bucket = datetime.now().minute // 5
MinuteBucket(t) == (t % 60) \div 5

\* a lookup that finds nothing
LruFindNothing(c, key) == 0

\* the position of the entry for key in c, 0 when there is none
LruFind(c, key) ==
    IF \E i \in 1..Len(c) : c[i].key = key
    THEN CHOOSE i \in 1..Len(c) : c[i].key = key
    ELSE 0

\* a hit that leaves the order alone: the oldest entry is evicted first
LruNoTouch(c, i) == c

\* a hit makes the entry the most recently used
LruTouch(c, i) ==
    <<c[i]>> \o SubSeq(c, 1, i - 1) \o SubSeq(c, i + 1, Len(c))

\* a miss stores the result, in place of the least recently used entry when
\* the cache is full
LruInsert(c, entry) ==
    IF Len(c) >= LruMaxSize
    THEN <<entry>> \o SubSeq(c, 1, LruMaxSize - 1)
    ELSE <<entry>> \o c

WeatherDict(weather) ==
    [location |-> [city |-> weather.location.city,
                   country |-> weather.location.country,
                   latitude |-> weather.location.latitude,
                   longitude |-> weather.location.longitude],
     temperature |-> weather.temperature, condition |-> weather.condition,
     humidity |-> weather.humidity, wind_speed |-> weather.wind_speed]

\* a body that lets the exception of client.get_weather through
get_cached_weather_reraise(call) ==
    IF call.kind = "raise" THEN call
    ELSE Return([body |-> WeatherDict(call.val), status |-> 200])

\* the function under the decorator, given what client.get_weather did
get_cached_weather_body(call) ==
    IF call.kind = "raise" /\ Catches({"Exception"}, call)
    THEN Return([body |-> [error |-> "Failed to fetch weather data",
                           message |-> call.msg],
                 status |-> 500])
    ELSE Return([body |-> WeatherDict(call.val), status |-> 200])

(***************************************************************************)
(* The weather endpoints, GET and POST /api/weather, for a validated city  *)
(* and country                                                             *)
(***************************************************************************)
\* the places callers ask for: two cities of one country and one city name
\* found in two countries
Places == {<<"Seattle", "USA">>, <<"Paris", "USA">>, <<"Paris", "France">>}

\* the instants at which requests arrive: one 5-minute window, the next
\* window, and a window an hour after the first
ClockInstants == {0, 5, 62}

ApiPages == {StructuredPage, NoTemperaturePage}
ApiFetchResults == {[kind |-> "ok", err |-> ""], [kind |-> "error", err |-> "timeout"]}

NoResponse ==
    [op |-> "none", key |-> <<"", "", 0>>, coords |-> <<>>,
     outcome |-> [body |-> None, status |-> 0],
     calls |-> 0, at |-> 0]

NoFailure == [key |-> <<"", "", 0>>, outcome |-> [body |-> None, status |-> 0]]

\* a dict without keys: the session of a caller who has none yet, and the
\* store of recent searches at start
EmptyDict == [k \in {} |-> None]

Threads == 1..MaxThreads

\* a thread that handles no request
Idle == [pc |-> "idle", key |-> <<"", "", 0>>]

\* app has no attribute weather_client
NoClient == [set |-> FALSE, closed |-> FALSE]

\* get_client(): app.weather_client, made by WeatherClient(timeout=15) when
\* app has none yet
get_client(client) == IF client.set THEN client ELSE [set |-> TRUE, closed |-> FALSE]

\* cleanup(): app.weather_client.close() when app has the attribute; the
\* attribute stays
cleanup(client) == IF client.set THEN [client EXCEPT !.closed = TRUE] ELSE client

\* the end of a request: Flask pops the application context and runs the
\* functions registered with app.teardown_appcontext.  called: the handler
\* reached get_client()
teardown_appcontext(called) ==
    weather_client' = cleanup(IF called THEN get_client(weather_client) ELSE weather_client)

ApiIdle ==
    /\ inflight = [t \in Threads |-> Idle]
    /\ now = 0
    /\ cache = <<>>
    /\ last = NoResponse
    /\ frozen = NoFailure
    /\ session = EmptyDict
    /\ recent_searches = EmptyDict
    /\ weather_client = NoClient

\* str(uuid.uuid4()): an id no session holds yet
Uuid4 == "uuid-1"

\* deque.remove(x): drops the first entry equal to x
DequeRemove(d, x) ==
    LET i == CHOOSE j \in 1..Len(d) : d[j] = x /\ \A k \in 1..(j - 1) : d[k] # x
    IN SubSeq(d, 1, i - 1) \o SubSeq(d, i + 1, Len(d))

\* deque.append(x): x goes to the right end and a full deque drops its
\* leftmost entry
DequeAppend(d, x) ==
    IF Len(d) >= RecentMaxLen
    THEN SubSeq(d, 2, RecentMaxLen) \o <<x>>
    ELSE d \o <<x>>

\* deque.appendleft(x) on a deque with maxlen: a full deque drops its
\* rightmost entry
DequeAppendLeft(d, x) ==
    IF Len(d) >= RecentMaxLen
    THEN <<x>> \o SubSeq(d, 1, RecentMaxLen - 1)
    ELSE <<x>> \o d

\* _add_to_recent_searches: the pair [sess, store] it leaves
add_to_recent_searches(sess, store, city, country) ==
    LET session_id   == IF "id" \in DOMAIN sess THEN sess["id"] ELSE Uuid4
        search_entry == [city |-> city, country |-> country]
        searches     == IF session_id \in DOMAIN store THEN store[session_id] ELSE <<>>
        removed      == IF \E j \in 1..Len(searches) : searches[j] = search_entry
                        THEN DequeRemove(searches, search_entry)
                        ELSE searches
    IN [sess  |-> ("id" :> session_id) @@ sess,
        store |-> (session_id :> DequeAppendLeft(removed, search_entry)) @@ store]

\* the handler's tail: a 200 is recorded in the recent searches, any other
\* status is only logged
RecordSearch(status_code, city, country) ==
    IF status_code = 200
    THEN \E added \in {add_to_recent_searches(session, recent_searches, city, country)} :
            /\ session' = added.sess
            /\ recent_searches' = added.store
    ELSE UNCHANGED <<session, recent_searches>>

\* key: the arguments of get_cached_weather; calls: the calls of
\* client.get_weather the request made; at: when the outcome was computed
HandleWeather(city, country, doc, fetch) ==
    \E key \in {<<city, country, MinuteBucket(now)>>} :
    \E i \in {LruFind(cache, key)} :
        IF i > 0
        THEN /\ cache' = LruTouch(cache, i)
             /\ last' = [op |-> "weather", key |-> key, coords |-> <<>>, outcome |-> cache[i].val,
                         calls |-> 0, at |-> cache[i].at]
             /\ ret' = NoRet
             /\ UNCHANGED frozen
             /\ RecordSearch(cache[i].val.status, city, country)
        ELSE \E call \in {WeatherClient_get_weather(Location(city, country), doc,
                                                    [n \in 1..MaxFetches |-> fetch])} :
             \E result \in {get_cached_weather_body(call.res)} :
             /\ ret' = [op |-> "get_weather"] @@ call @@ NoRet
             /\ IF result.kind = "return"
                THEN /\ cache' = LruInsert(cache, [key |-> key, val |-> result.val,
                                                   at |-> now])
                     /\ last' = [op |-> "weather", key |-> key, coords |-> <<>>,
                                 outcome |-> result.val, calls |-> 1, at |-> now]
                     /\ frozen' = IF result.val.status = 200 THEN frozen
                                  ELSE [key |-> key, outcome |-> result.val]
                     /\ RecordSearch(result.val.status, city, country)
                ELSE /\ cache' = cache
                     /\ last' = [op |-> "weather", key |-> key, coords |-> <<>>,
                                 outcome |-> [body |-> [error |-> "Internal Server Error"],
                                              status |-> 500],
                                 calls |-> 1, at |-> now]
                     /\ UNCHANGED <<frozen, session, recent_searches>>

\* Python's "not value" on the values a request carries
PyNot(value) ==
    \/ value.type = "NoneType"
    \/ value.type = "str" /\ value.s = ""
    \/ value.type = "int" /\ value.v = 0

\* dict.get(key) and MultiDict.get(key): None for a key that is not there
Get(d, key) == IF key \in DOMAIN d THEN d[key] ELSE None

\* the request bodies request.get_json() tells apart: one that is no JSON
\* (it raises), a JSON array, and a JSON object with its fields
BodyMalformed == [json |-> "malformed"]
BodyArray == [json |-> "array"]
BodyObject(fields) == [json |-> "object", fields |-> fields]

\* a 400 answer that returns before get_cached_weather is reached
Reject(error, message) ==
    /\ last' = [op |-> "rejected", key |-> <<"", "", 0>>, coords |-> <<>>,
                outcome |-> [body |-> [error |-> error, message |-> message],
                             status |-> 400],
                calls |-> 0, at |-> now]
    /\ ret' = NoRet
    /\ UNCHANGED <<cache, frozen, session, recent_searches>>

\* a handler that forgets to look at country_error and goes on with str(country)
validate_and_fetch_city_only(city, country, missing, doc, fetch) ==
    LET PyStr(v) == IF v.type = "str" THEN v.s
                    ELSE IF v.type = "int" THEN ToString(v.v) ELSE "None"
    IN
    \E checked \in {validate_input(city, "city", MAX_CITY_LENGTH)} :
        IF PyNot(city) \/ PyNot(country)
        THEN Reject(missing[1], missing[2])
        ELSE IF checked[2] # None
        THEN Reject("Invalid input", checked[2].s)
        ELSE HandleWeather(checked[1].s, PyStr(country), doc, fetch)

\* what both weather handlers do with the city and the country they read:
\* the required-value check, validate_input on each, then the cached call
validate_and_fetch(city, country, missing, doc, fetch) ==
    \E city_checked \in {validate_input(city, "city", MAX_CITY_LENGTH)} :
    \E country_checked \in {validate_input(country, "country", MAX_COUNTRY_LENGTH)} :
        IF PyNot(city) \/ PyNot(country)
        THEN Reject(missing[1], missing[2])
        ELSE IF city_checked[2] # None
        THEN Reject("Invalid input", city_checked[2].s)
        ELSE IF country_checked[2] # None
        THEN Reject("Invalid input", country_checked[2].s)
        ELSE HandleWeather(city_checked[1].s, country_checked[1].s, doc, fetch)

\* GET /api/weather with the query string query
get_weather_query(query, doc, fetch) ==
    /\ args' = [method |-> "GET", data |-> BodyObject(query)]
    /\ validate_and_fetch(Get(query, "city"), Get(query, "country"),
                          <<"Missing required parameters",
                            "Both 'city' and 'country' parameters are required">>,
                          doc, fetch)
    /\ teardown_appcontext(last'.calls = 1)
    /\ UNCHANGED <<html, fetches, now, inflight, lookup>>

\* POST /api/weather with the body data
get_weather_post_body(data, doc, fetch) ==
    /\ args' = [method |-> "POST", data |-> data]
    /\ IF data.json = "malformed"
       THEN Reject("Invalid request", "Request body must be valid JSON")
       ELSE IF data.json # "object" \/ DOMAIN data.fields = {}
       THEN Reject("Invalid request", "Request body must be a JSON object")
       ELSE validate_and_fetch(Get(data.fields, "city"), Get(data.fields, "country"),
                               <<"Missing required fields",
                                 "Both 'city' and 'country' fields are required">>,
                               doc, fetch)
    /\ teardown_appcontext(last'.calls = 1)
    /\ UNCHANGED <<html, fetches, now, inflight, lookup>>

get_weather ==
    \E place \in Places, doc \in ApiPages, fetch \in ApiFetchResults :
        /\ HandleWeather(place[1], place[2], doc, fetch)
        /\ teardown_appcontext(last'.calls = 1)
        /\ UNCHANGED <<html, fetches, now, inflight, lookup, args>>

get_weather_post ==
    \E place \in Places, doc \in ApiPages, fetch \in ApiFetchResults :
        /\ HandleWeather(place[1], place[2], doc, fetch)
        /\ teardown_appcontext(last'.calls = 1)
        /\ UNCHANGED <<html, fetches, now, inflight, lookup, args>>

(***************************************************************************)
(* The coordinates endpoint, GET /api/v1/weather/coordinates               *)
(***************************************************************************)
\* the lat and lon query parameters as the caller sends them
LatStrs == {JsonAbsent, JsonNumStr(47), JsonNumStr(91), JsonText}
LonStrs == {JsonAbsent, JsonNumStr(-122), JsonNumStr(181)}

ApiGeocodeResults == {GeocoderFound(SeattleAddress), GeocoderNone}

\* lat = float(lat_str); lon = float(lon_str) and the two range checks
ParseCoordinates(lat_str, lon_str) ==
    LET Ranges(lat, lon) ==
            IF ~ (-90 <= lat /\ lat <= 90)
            THEN Raise("ValueError", <<"Latitude must be between -90 and 90">>)
            ELSE IF ~ (-180 <= lon /\ lon <= 180)
            THEN Raise("ValueError", <<"Longitude must be between -180 and 180">>)
            ELSE Return(<<lat, lon>>)
        Floats(lat, lon) ==
            IF lat.kind = "raise" THEN lat
            ELSE IF lon.kind = "raise" THEN lon
            ELSE Ranges(lat.val, lon.val)
    IN  Floats(PyFloat(lat_str), PyFloat(lon_str))

\* the try block around the client call and its except Exception
coordinates_body(call) ==
    IF call.kind = "raise" /\ Catches({"Exception"}, call)
    THEN [body |-> [error |-> "Failed to fetch weather data", message |-> call.msg],
          status |-> 500]
    ELSE [body |-> WeatherDict(call.val), status |-> 200]

\* coords: the coordinates asked for; calls: the calls of
\* client.get_weather_by_coordinates the request made
HandleCoordinates(lat_str, lon_str, geo, doc, fetch) ==
    IF lat_str.k = "absent" \/ lon_str.k = "absent"
    THEN /\ last' = [op |-> "coordinates", key |-> <<"", "", 0>>, coords |-> <<>>,
                     outcome |-> [body |-> [error |-> "Missing required parameters",
                                            message |-> <<"Both 'lat' and 'lon' parameters are required">>],
                                  status |-> 400],
                     calls |-> 0, at |-> now]
         /\ ret' = NoRet
    ELSE \E parsed \in {ParseCoordinates(lat_str, lon_str)} :
         IF parsed.kind = "raise"
         THEN /\ last' = [op |-> "coordinates", key |-> <<"", "", 0>>, coords |-> <<>>,
                          outcome |-> [body |-> [error |-> "Invalid coordinates",
                                                 message |-> parsed.msg],
                                       status |-> 400],
                          calls |-> 0, at |-> now]
              /\ ret' = NoRet
         ELSE \E call \in {WeatherClient_get_weather_by_coordinates(
                               geo, parsed.val[1], parsed.val[2], doc,
                               [n \in 1..MaxFetches |-> fetch])} :
              /\ last' = [op |-> "coordinates", key |-> <<"", "", 0>>,
                          coords |-> parsed.val,
                          outcome |-> coordinates_body(call.res),
                          calls |-> 1, at |-> now]
              /\ ret' = [op |-> "get_weather_by_coordinates", res |-> call.res,
                         attempts |-> call.attempts] @@ NoRet

get_weather_by_coordinates ==
    \E lat_str \in LatStrs, lon_str \in LonStrs, geo \in ApiGeocodeResults,
       doc \in ApiPages, fetch \in ApiFetchResults :
        /\ HandleCoordinates(lat_str, lon_str, geo, doc, fetch)
        /\ teardown_appcontext(last'.calls = 1)
        /\ UNCHANGED <<html, fetches, now, cache, frozen, session, recent_searches, inflight,
                       lookup, args>>

\* time passes
Tick ==
    /\ \E t \in ClockInstants : t > now /\ now' = t
    /\ frozen' = NoFailure
    /\ UNCHANGED <<html, fetches, ret, cache, last, session, recent_searches, inflight, lookup,
                   args, weather_client>>

Init ==
    /\ html = StructuredPage
    /\ fetches = <<>>
    /\ ret = NoRet
    /\ lookup = NoLookup
    /\ args = NoArgs
    /\ ApiIdle

Next == get_weather \/ get_weather_post \/ Tick

Spec == Init /\ [][Next]_vars

(***************************************************************************)
(* The recent searches of a caller, GET and DELETE /api/v1/recent-searches *)
(***************************************************************************)
\* session_id = session.get("id"); session_id and session_id in recent_searches
HasSearches(sess, store) == "id" \in DOMAIN sess /\ sess["id"] \in DOMAIN store

\* the store without the key session_id
DictDelete(store, session_id) == [k \in DOMAIN store \ {session_id} |-> store[k]]

get_recent_searches ==
    /\ last' = [op |-> "recent_searches", key |-> <<"", "", 0>>, coords |-> <<>>,
                outcome |-> [body |-> [recent_searches |->
                                          IF HasSearches(session, recent_searches)
                                          THEN recent_searches[session["id"]]
                                          ELSE <<>>],
                             status |-> 200],
                calls |-> 0, at |-> now]
    /\ ret' = NoRet
    /\ teardown_appcontext(FALSE)
    /\ UNCHANGED <<html, fetches, now, cache, frozen, session, recent_searches, inflight,
                   lookup, args>>

clear_recent_searches ==
    /\ recent_searches' = IF HasSearches(session, recent_searches)
                          THEN DictDelete(recent_searches, session["id"])
                          ELSE recent_searches
    /\ last' = [op |-> "clear_recent_searches", key |-> <<"", "", 0>>, coords |-> <<>>,
                outcome |-> [body |-> [message |-> "Recent searches cleared"],
                             status |-> 200],
                calls |-> 0, at |-> now]
    /\ ret' = NoRet
    /\ teardown_appcontext(FALSE)
    /\ UNCHANGED <<html, fetches, now, cache, frozen, session, inflight, lookup, args>>

NextRecent ==
    get_weather \/ get_weather_post \/ get_recent_searches \/ clear_recent_searches \/ Tick

SpecRecent == Init /\ [][NextRecent]_vars

(***************************************************************************)
(* Requests of callers who share a session id, handled by several threads  *)
(* at once.  A thread can be suspended between any two statements of       *)
(* _add_to_recent_searches and clear_recent_searches, so each statement    *)
(* that reads or writes the store is a step.  A deque is an object: the    *)
(* thread that has read recent_searches[session_id] keeps that deque also  *)
(* after the key is deleted.  searches.obj = 0 is the deque the store      *)
(* holds for the session; obj > 0 is a deque deleted from the store, whose *)
(* items are kept with every thread that still refers to it.               *)
(***************************************************************************)
\* the session cookie the callers send
SharedSession == "id" :> Uuid4

NoDeque == [obj |-> 0, items |-> <<>>]

AtStatement(t, pc, key, searches) ==
    [inflight EXCEPT ![t] = [pc |-> pc, key |-> key, searches |-> searches]]

\* the threads whose local variable searches refers to the deque obj
Holders(obj) ==
    {t \in Threads : /\ inflight[t].pc \in {"contains", "remove", "appendleft"}
                     /\ inflight[t].searches.obj = obj}

\* the items of the deque that searches refers to in thread t
ItemsOf(t) ==
    IF inflight[t].searches.obj = 0 THEN recent_searches[Uuid4]
    ELSE inflight[t].searches.items

SearchEntry(key) == [city |-> key[1], country |-> key[2]]

Contains(d, x) == \E j \in 1..Len(d) : d[j] = x

\* thread t writes items to the deque it refers to and goes on at statement pc
WriteDeque(t, items, pc) ==
    LET obj == inflight[t].searches.obj
    IN  IF obj = 0
        THEN /\ recent_searches' = (Uuid4 :> items) @@ recent_searches
             /\ inflight' = [inflight EXCEPT ![t].pc = pc]
        ELSE /\ recent_searches' = recent_searches
             /\ inflight' = [u \in Threads |->
                                IF u = t
                                THEN [inflight[u] EXCEPT !.pc = pc, !.searches.items = items]
                                ELSE IF u \in Holders(obj)
                                THEN [inflight[u] EXCEPT !.searches.items = items]
                                ELSE inflight[u]]

\* the exception leaves the handler and Flask answers 500
Unhandled(t, op, exception) ==
    /\ ret' = [op |-> op, res |-> exception] @@ NoRet
    /\ last' = [op |-> op, key |-> inflight[t].key, coords |-> <<>>,
                outcome |-> [body |-> [error |-> "Internal Server Error"],
                             status |-> 500],
                calls |-> 0, at |-> now]

\* a weather handler of thread t got status 200 from get_cached_weather and
\* calls _add_to_recent_searches: session_id = session.get("id")
AddEnter(t) ==
    /\ inflight[t].pc = "idle"
    /\ \E place \in Places :
          inflight' = AtStatement(t, "ensure", <<place[1], place[2], MinuteBucket(now)>>,
                                  NoDeque)
    /\ UNCHANGED <<html, fetches, ret, now, cache, last, frozen, session, recent_searches,
                   lookup, args, weather_client>>

\* if session_id not in recent_searches: recent_searches[session_id] = deque(maxlen=10)
AddEnsure(t) ==
    /\ inflight[t].pc = "ensure"
    /\ recent_searches' = IF Uuid4 \in DOMAIN recent_searches THEN recent_searches
                          ELSE (Uuid4 :> <<>>) @@ recent_searches
    /\ inflight' = [inflight EXCEPT ![t].pc = "lookup"]
    /\ UNCHANGED <<html, fetches, ret, now, cache, last, frozen, session, lookup, args,
                   weather_client>>

\* searches = recent_searches[session_id]
AddLookup(t) ==
    /\ inflight[t].pc = "lookup"
    /\ IF Uuid4 \in DOMAIN recent_searches
       THEN /\ inflight' = [inflight EXCEPT ![t].pc = "contains"]
            /\ UNCHANGED <<ret, last, weather_client>>
       ELSE /\ Unhandled(t, "add_to_recent_searches", Raise("KeyError", <<Uuid4>>))
            /\ inflight' = [inflight EXCEPT ![t] = Idle]
            /\ teardown_appcontext(FALSE)
    /\ UNCHANGED <<html, fetches, now, cache, frozen, session, recent_searches, lookup, args>>

\* if search_entry in searches:
AddContains(t) ==
    /\ inflight[t].pc = "contains"
    /\ inflight' = [inflight EXCEPT ![t].pc =
                       IF Contains(ItemsOf(t), SearchEntry(inflight[t].key))
                       THEN "remove" ELSE "appendleft"]
    /\ UNCHANGED <<html, fetches, ret, now, cache, last, frozen, session, recent_searches,
                   lookup, args, weather_client>>

\* searches.remove(search_entry)
AddRemove(t) ==
    /\ inflight[t].pc = "remove"
    /\ IF Contains(ItemsOf(t), SearchEntry(inflight[t].key))
       THEN /\ WriteDeque(t, DequeRemove(ItemsOf(t), SearchEntry(inflight[t].key)),
                          "appendleft")
            /\ UNCHANGED <<ret, last, weather_client>>
       ELSE /\ Unhandled(t, "add_to_recent_searches",
                         Raise("ValueError", <<"deque.remove(x): x not in deque">>))
            /\ inflight' = [inflight EXCEPT ![t] = Idle]
            /\ teardown_appcontext(FALSE)
            /\ UNCHANGED recent_searches
    /\ UNCHANGED <<html, fetches, now, cache, frozen, session, lookup, args>>

\* searches.appendleft(search_entry), and the handler answers 200
AddAppendLeft(t) ==
    /\ inflight[t].pc = "appendleft"
    /\ \E done \in {[inflight EXCEPT ![t] = Idle]} :
       \E items \in {DequeAppendLeft(ItemsOf(t), SearchEntry(inflight[t].key))} :
       \E obj \in {inflight[t].searches.obj} :
          IF obj = 0
          THEN /\ recent_searches' = (Uuid4 :> items) @@ recent_searches
               /\ inflight' = done
          ELSE /\ recent_searches' = recent_searches
               /\ inflight' = [u \in Threads |->
                                  IF u # t /\ u \in Holders(obj)
                                  THEN [inflight[u] EXCEPT !.searches.items = items]
                                  ELSE done[u]]
    /\ ret' = [op |-> "add_to_recent_searches", res |-> Return(None)] @@ NoRet
    /\ last' = [op |-> "weather", key |-> inflight[t].key, coords |-> <<>>,
                outcome |-> [body |-> None, status |-> 200], calls |-> 0, at |-> now]
    /\ teardown_appcontext(FALSE)
    /\ UNCHANGED <<html, fetches, now, cache, frozen, session, lookup, args>>

\* clear_recent_searches in thread t:
\* if session_id and session_id in recent_searches:
ClearCheck(t) ==
    /\ inflight[t].pc = "idle"
    /\ IF Uuid4 \in DOMAIN recent_searches
       THEN /\ inflight' = AtStatement(t, "delete", <<"", "", 0>>, NoDeque)
            /\ UNCHANGED <<ret, last, weather_client>>
       ELSE /\ ret' = [op |-> "clear_recent_searches", res |-> Return(None)] @@ NoRet
            /\ last' = [op |-> "clear_recent_searches", key |-> <<"", "", 0>>,
                        coords |-> <<>>,
                        outcome |-> [body |-> [message |-> "Recent searches cleared"],
                                     status |-> 200],
                        calls |-> 0, at |-> now]
            /\ teardown_appcontext(FALSE)
            /\ UNCHANGED inflight
    /\ UNCHANGED <<html, fetches, now, cache, frozen, session, recent_searches, lookup, args>>

\* del recent_searches[session_id]: the threads that refer to the deque keep it
ClearDelete(t) ==
    /\ inflight[t].pc = "delete"
    /\ IF Uuid4 \in DOMAIN recent_searches
       THEN \E obj \in {CHOOSE n \in 1..MaxThreads : Holders(n) = {}} :
            /\ recent_searches' = DictDelete(recent_searches, Uuid4)
            /\ inflight' = [u \in Threads |->
                               IF u = t THEN Idle
                               ELSE IF u \in Holders(0)
                               THEN [inflight[u] EXCEPT
                                        !.searches = [obj |-> obj,
                                                      items |-> recent_searches[Uuid4]]]
                               ELSE inflight[u]]
            /\ ret' = [op |-> "clear_recent_searches", res |-> Return(None)] @@ NoRet
            /\ last' = [op |-> "clear_recent_searches", key |-> <<"", "", 0>>,
                        coords |-> <<>>,
                        outcome |-> [body |-> [message |-> "Recent searches cleared"],
                                     status |-> 200],
                        calls |-> 0, at |-> now]
       ELSE /\ Unhandled(t, "clear_recent_searches", Raise("KeyError", <<Uuid4>>))
            /\ inflight' = [inflight EXCEPT ![t] = Idle]
            /\ UNCHANGED recent_searches
    /\ teardown_appcontext(FALSE)
    /\ UNCHANGED <<html, fetches, now, cache, frozen, session, lookup, args>>

InitShared ==
    /\ html = StructuredPage
    /\ fetches = <<>>
    /\ ret = NoRet
    /\ lookup = NoLookup
    /\ args = NoArgs
    /\ inflight = [t \in Threads |-> Idle]
    /\ now = 0
    /\ cache = <<>>
    /\ last = NoResponse
    /\ frozen = NoFailure
    /\ session = SharedSession
    /\ recent_searches = EmptyDict
    /\ weather_client = NoClient

NextShared ==
    \E t \in Threads :
        \/ AddEnter(t) \/ AddEnsure(t) \/ AddLookup(t) \/ AddContains(t)
        \/ AddRemove(t) \/ AddAppendLeft(t) \/ ClearCheck(t) \/ ClearDelete(t)

SpecShared == InitShared /\ [][NextShared]_vars

(***************************************************************************)
(* Weather requests handled by several threads at once.  The wrapper of    *)
(* functools.lru_cache looks the key up, calls get_cached_weather outside  *)
(* its lock on a miss, and stores the result afterwards unless the key was *)
(* added in the meantime.                                                  *)
(***************************************************************************)
\* a store that does not look for the key first
LruStoreUnchecked(c, entry) == LruInsert(c, entry)

\* the wrapper after the call: the result is stored unless the key is
\* already there
LruStore(c, entry) ==
    IF LruFind(c, entry.key) > 0 THEN c ELSE LruInsert(c, entry)

\* thread t takes a request and looks its key up: a hit is answered at once,
\* a miss leaves the thread in the call of get_cached_weather
BeginWeather(t) ==
    /\ inflight[t].pc = "idle"
    /\ \E place \in Places :
       \E key \in {<<place[1], place[2], MinuteBucket(now)>>} :
       \E i \in {LruFind(cache, key)} :
          IF i > 0
          THEN /\ cache' = LruTouch(cache, i)
               /\ last' = [op |-> "weather", key |-> key, coords |-> <<>>,
                           outcome |-> cache[i].val, calls |-> 0, at |-> cache[i].at]
               /\ RecordSearch(cache[i].val.status, place[1], place[2])
               /\ weather_client' = cleanup(weather_client)
               /\ UNCHANGED inflight
          ELSE /\ inflight' = [inflight EXCEPT ![t] = [pc |-> "calling", key |-> key]]
               /\ weather_client' = get_client(weather_client)
               /\ UNCHANGED <<cache, last, session, recent_searches>>
    /\ ret' = NoRet
    /\ UNCHANGED <<html, fetches, now, frozen, lookup, args>>

\* the call of thread t returns, the wrapper stores the result and the
\* handler answers
CompleteWeather(t) ==
    /\ inflight[t].pc = "calling"
    /\ \E doc \in ApiPages, fetch \in ApiFetchResults :
       \E key \in {inflight[t].key} :
       \E call \in {WeatherClient_get_weather(Location(key[1], key[2]), doc,
                                              [n \in 1..MaxFetches |-> fetch])} :
       \E result \in {get_cached_weather_body(call.res)} :
          /\ ret' = [op |-> "get_weather"] @@ call @@ NoRet
          /\ cache' = LruStore(cache, [key |-> key, val |-> result.val, at |-> now])
          /\ last' = [op |-> "weather", key |-> key, coords |-> <<>>,
                      outcome |-> result.val, calls |-> 1, at |-> now]
          /\ frozen' = IF result.val.status = 200 THEN frozen
                       ELSE [key |-> key, outcome |-> result.val]
          /\ RecordSearch(result.val.status, key[1], key[2])
    /\ inflight' = [inflight EXCEPT ![t] = Idle]
    /\ weather_client' = cleanup(weather_client)
    /\ UNCHANGED <<html, fetches, now, lookup, args>>

NextConcurrent == \E t \in Threads : BeginWeather(t) \/ CompleteWeather(t)

SpecConcurrent == Init /\ [][NextConcurrent]_vars

(***************************************************************************)
(* Callers who ask for the weather of one place, by name and by            *)
(* coordinates                                                             *)
(***************************************************************************)
\* GET /api/weather?city=Seattle&country=USA
get_weather_seattle ==
    \E doc \in ApiPages, fetch \in ApiFetchResults :
        /\ HandleWeather("Seattle", "USA", doc, fetch)
        /\ teardown_appcontext(last'.calls = 1)
        /\ UNCHANGED <<html, fetches, now, inflight, lookup, args>>

NextCoordinates == get_weather_seattle \/ get_weather_by_coordinates \/ Tick

SpecCoordinates == Init /\ [][NextCoordinates]_vars

(***************************************************************************)
(* The extractors applied to a document                                    *)
(***************************************************************************)
InitParse ==
    /\ html \in Pages
    /\ fetches = <<>>
    /\ ret = NoRet
    /\ lookup = NoLookup
    /\ args = NoArgs
    /\ ApiIdle

ParseWeatherResponse ==
    /\ ret' = [op |-> "parse"] @@ parse_weather_response(html, Seattle) @@ NoRet
    /\ UNCHANGED <<html, fetches, now, cache, last, frozen, session, recent_searches,
                   inflight, lookup, args, weather_client>>

ExtractWeatherFromJson ==
    /\ ret' = [op |-> "extract_json", res |-> extract_weather_from_json(html)] @@ NoRet
    /\ UNCHANGED <<html, fetches, now, cache, last, frozen, session, recent_searches,
                   inflight, lookup, args, weather_client>>

NextParse == ParseWeatherResponse \/ ExtractWeatherFromJson

SpecParse == InitParse /\ [][NextParse]_vars

(***************************************************************************)
(* The extractors applied to documents whose blocks are well formed: JSON  *)
(* objects whose hourly entries hold values of the expected form           *)
(***************************************************************************)
WellFormedEntries ==
    {GoodEntry,
     [GoodEntry EXCEPT !.temperature = JsonInt(50), !.cap = "Rain"],
     [GoodEntry EXCEPT !.humidity = JsonInt(40), !.windSpeed = JsonAbsent]}

WellFormedBlocks ==
    [shape : {"nopath"}, hourly : {<<>>}]
    \cup
    [shape : {"hourly"}, hourly : SeqUpTo(WellFormedEntries, MaxHourly)]

WellFormedPages ==
    {[scripts |-> scripts] @@ NoText : scripts \in SeqUpTo(WellFormedBlocks, MaxBlocks)}

InitExtract ==
    /\ html \in WellFormedPages
    /\ fetches = <<>>
    /\ ret = NoRet
    /\ lookup = NoLookup
    /\ args = NoArgs
    /\ ApiIdle

SpecExtract == InitExtract /\ [][NextParse]_vars

(***************************************************************************)
(* The extractors applied to documents with one structured payload whose   *)
(* current entry holds a temperature, a humidity and a wind speed          *)
(***************************************************************************)
Fahrenheits == (0 - MaxFahrenheit)..MaxFahrenheit

ConvertEntries ==
    [temperature : {JsonInt(f) : f \in Fahrenheits}, cap : {"Sunny"},
     humidity : {JsonPctStr(65), JsonInt(40)},
     windSpeed : {JsonNumStr(mph) : mph \in 0..MaxMph}]

ConvertPages ==
    {[scripts |-> <<[shape |-> "hourly", hourly |-> <<current>>]>>] @@ NoText :
        current \in ConvertEntries}

InitConvert ==
    /\ html \in ConvertPages
    /\ fetches = <<>>
    /\ ret = NoRet
    /\ lookup = NoLookup
    /\ args = NoArgs
    /\ ApiIdle

SpecConvert == InitConvert /\ [][NextParse]_vars

(***************************************************************************)
(* The clients applied to a script of the fetch collaborator               *)
(***************************************************************************)
InitClient ==
    /\ html \in SamplePages
    /\ fetches \in [1..MaxFetches -> FetchResults]
    /\ ret = NoRet
    /\ lookup = NoLookup
    /\ args = NoArgs
    /\ ApiIdle

GetWeather ==
    /\ ret' = [op |-> "get_weather"]
                 @@ WeatherClient_get_weather(Seattle, html, fetches) @@ NoRet
    /\ UNCHANGED <<html, fetches, now, cache, last, frozen, session, recent_searches,
                   inflight, lookup, args, weather_client>>

AsyncGetWeather ==
    /\ ret' = [op |-> "async_get_weather"]
                 @@ AsyncWeatherClient_get_weather(Seattle, html, fetches) @@ NoRet
    /\ UNCHANGED <<html, fetches, now, cache, last, frozen, session, recent_searches,
                   inflight, lookup, args, weather_client>>

NextClient == GetWeather \/ AsyncGetWeather

SpecClient == InitClient /\ [][NextClient]_vars

(***************************************************************************)
(* Reverse geocoding and the clients' get_weather_by_coordinates applied   *)
(* to coordinates and an answer of the geocoder                            *)
(***************************************************************************)
\* the text the geocoder may hold under a key of the address
AddressName(key) ==
    CASE key = "city"    -> "Seattle"
      [] key = "town"    -> "Redmond"
      [] key = "village" -> "Index"
      [] key = "county"  -> "King County"
      [] key = "country" -> "USA"

\* every address: each key absent, empty or holding its text
Addresses ==
    UNION {{[k \in present |-> IF k \in filled THEN AddressName(k) ELSE ""] :
               filled \in SUBSET present} : present \in SUBSET AddressKeys}

GeocodeResults ==
    {GeocoderNone, GeocoderFailed("timeout"), GeocoderFailed("unavailable")}
    \cup {GeocoderFound(address) : address \in Addresses}

Latitudes  == {47, -34}
Longitudes == {-122}

\* the fetch collaborator answers every attempt alike
SteadyFetches == {[n \in 1..MaxFetches |-> fetch] : fetch \in ApiFetchResults}

InitGeocode ==
    /\ html \in ApiPages
    /\ fetches \in SteadyFetches
    /\ ret = NoRet
    /\ lookup \in [geo : GeocodeResults, latitude : Latitudes, longitude : Longitudes]
    /\ args = NoArgs
    /\ ApiIdle

ReverseGeocode ==
    /\ ret' = [op |-> "reverse_geocode",
               res |-> reverse_geocode_to_location(lookup.geo, lookup.latitude,
                                                   lookup.longitude)] @@ NoRet
    /\ UNCHANGED <<html, fetches, now, cache, last, frozen, session, recent_searches,
                   inflight, lookup, args, weather_client>>

GetWeatherByCoordinates ==
    /\ \E call \in {WeatherClient_get_weather_by_coordinates(
                        lookup.geo, lookup.latitude, lookup.longitude, html, fetches)} :
          ret' = [op |-> "get_weather_by_coordinates", res |-> call.res,
                  attempts |-> call.attempts] @@ NoRet
    /\ UNCHANGED <<html, fetches, now, cache, last, frozen, session, recent_searches,
                   inflight, lookup, args, weather_client>>

AsyncGetWeatherByCoordinates ==
    /\ \E call \in {AsyncWeatherClient_get_weather_by_coordinates(
                        lookup.geo, lookup.latitude, lookup.longitude, html, fetches)} :
          ret' = [op |-> "async_get_weather_by_coordinates", res |-> call.res,
                  attempts |-> call.attempts] @@ NoRet
    /\ UNCHANGED <<html, fetches, now, cache, last, frozen, session, recent_searches,
                   inflight, lookup, args, weather_client>>

NextGeocode == ReverseGeocode \/ GetWeatherByCoordinates \/ AsyncGetWeatherByCoordinates

SpecGeocode == InitGeocode /\ [][NextGeocode]_vars

(***************************************************************************)
(* validate_input applied to a value, a field name and a maximum length    *)
(***************************************************************************)
Alphabet == {"a", " ", "<"}

RECURSIVE StringsUpTo(_)
StringsUpTo(n) ==
    IF n = 0 THEN {""}
    ELSE StringsUpTo(n - 1) \cup {s \o c : s \in StringsUpTo(n - 1), c \in Alphabet}

\* s repeated n times
RECURSIVE Repeat(_, _)
Repeat(s, n) == IF n = 0 THEN "" ELSE s \o Repeat(s, n - 1)

\* values of every type a caller can send: no value, a number, short
\* strings, and strings around the maximum length of the handlers
Values ==
    {None, PyInt(5)}
    \cup {Str(s) : s \in StringsUpTo(MaxNameLength)}
    \cup {Str(Repeat("A", MAX_CITY_LENGTH)), Str(Repeat("A", MAX_CITY_LENGTH + 1)),
          Str(" " \o Repeat("A", MAX_CITY_LENGTH) \o " ")}

MaxLengths == {1, 2, MAX_CITY_LENGTH}

InitValidate ==
    /\ html = StructuredPage
    /\ fetches = <<>>
    /\ ret = NoRet
    /\ lookup = NoLookup
    /\ args \in [value : Values, field_name : {"city", "country"}, max_length : MaxLengths]
    /\ ApiIdle

ValidateInput ==
    /\ ret' = [op |-> "validate_input",
               res |-> Return(validate_input(args.value, args.field_name,
                                             args.max_length))] @@ NoRet
    /\ UNCHANGED <<html, fetches, now, cache, last, frozen, session, recent_searches,
                   inflight, lookup, args, weather_client>>

NextValidate == ValidateInput

SpecValidate == InitValidate /\ [][NextValidate]_vars

\* ---- requests as they arrive at the weather handlers ----

\* a key the request does not carry
Absent == [type |-> "absent"]

\* the dict with the city and the country that are there
MakeDict(city, country) ==
    [key \in {k \in {"city", "country"} :
                 (IF k = "city" THEN city ELSE country) # Absent}
        |-> IF key = "city" THEN city ELSE country]

\* cities and countries a query string can carry: empty, blank, to be
\* trimmed, and around the maximum length
QueryCities ==
    {Absent, Str(""), Str(" "), Str(" Seattle "),
     Str(Repeat("A", MAX_CITY_LENGTH + 1)),
     Str(" " \o Repeat("A", MAX_CITY_LENGTH) \o " ")}

QueryCountries == {Absent, Str(" "), Str("USA")}

Queries == {MakeDict(city, country) : city \in QueryCities, country \in QueryCountries}

\* a JSON body can also carry values that are no strings, and any character
BodyCities == {Absent, PyInt(0), PyInt(5), Str("Se<ttle"), Str(" Seattle ")}

BodyCountries == {Absent, PyInt(5), Str("US;"), Str("USA")}

PostBodies ==
    {BodyMalformed, BodyArray}
    \cup {BodyObject(MakeDict(city, country)) :
             city \in BodyCities, country \in BodyCountries}

get_weather_request ==
    \E query \in Queries, fetch \in ApiFetchResults :
        get_weather_query(query, StructuredPage, fetch)

get_weather_post_request ==
    \E data \in PostBodies, fetch \in ApiFetchResults :
        get_weather_post_body(data, StructuredPage, fetch)

NextRequests == get_weather_request \/ get_weather_post_request

SpecRequests == Init /\ [][NextRequests]_vars

(***************************************************************************)
(* Properties of the extractors (SpecParse)                                *)
(***************************************************************************)
Min(S) == CHOOSE x \in S : \A y \in S : x <= y

\* the blocks of a document from which a reading can be built
Usable(doc) ==
    {i \in 1..Len(doc.scripts) : ParseBlock(doc.scripts[i]).kind = "return"}

\* the humidity and wind speed the extractors come up with for a document
Extracted(doc) ==
    LET weather_data == extract_weather_from_json(doc).val
    IN  IF weather_data # None
        THEN [humidity |-> weather_data.humidity, wind_speed |-> weather_data.wind_speed]
        ELSE [humidity |-> extract_humidity(doc), wind_speed |-> extract_wind_speed(doc)]

OutOfRange(r) == r.humidity < 0 \/ r.humidity > 100 \/ r.wind_speed < 0

\* C7: a humidity outside [0,100] or a negative wind speed, on the structured
\* path as on the heuristic path, makes _parse_weather_response raise
\* ParsingError and nothing else
C7_OutOfRangeIsParsingError ==
    (ret.op = "parse" /\ OutOfRange(Extracted(html)))
        => (ret.res.kind = "raise" /\ ret.res.cls = "ParsingError")

\* C8: every WeatherData returned has humidity in [0,100] and wind_speed >= 0
C8_ReadingInRange ==
    (ret.op = "parse" /\ ret.res.kind = "return")
        => /\ ret.res.val.type = "WeatherData"
           /\ ret.res.val.humidity \in 0..100
           /\ ret.res.val.wind_speed >= 0

\* a reading came back from the heuristic path, whose humidity and wind speed
\* were found in the text
C8_Witness ==
    /\ ret.op = "parse"
    /\ ret.res.kind = "return"
    /\ ret.heuristic
    /\ html.humidity.found /\ html.wind.found

\* C9: the heuristic extractors run only when the structured extractor
\* returned nothing; a reading it yields is the one returned, whatever the
\* heuristic extractors would have found
C9_StructuredShortCircuits ==
    ret.op = "parse" =>
        LET weather_data == extract_weather_from_json(html).val
        IN  /\ ret.heuristic <=> (weather_data = None)
            /\ weather_data # None =>
                 /\ ret.res.kind = "return" =>
                      /\ ret.res.val.temperature = weather_data.temperature
                      /\ ret.res.val.condition = weather_data.condition
                      /\ ret.res.val.humidity = weather_data.humidity
                      /\ ret.res.val.wind_speed = weather_data.wind_speed
                 /\ \A t \in TextTemps, h \in TextHumidities,
                       w \in TextWinds, c \in TextConds :
                      parse_weather_response(
                          [scripts |-> html.scripts, temp |-> t, humidity |-> h,
                           wind |-> w, cond |-> c], Seattle).res = ret.res

\* the structured reading was returned for a document whose text also holds
\* a temperature, a humidity and a wind speed
C9_Witness ==
    /\ ret.op = "parse"
    /\ ret.res.kind = "return"
    /\ ~ ret.heuristic
    /\ html.temp.found /\ html.humidity.found /\ html.wind.found

\* C10: _extract_weather_from_json never raises, skips every block from
\* which no reading can be built and returns None only when no block of the
\* document yields a reading
C10_ExtractorSkipsBadBlocks ==
    ret.op = "extract_json" =>
        /\ ret.res.kind = "return"
        /\ ret.res = IF Usable(html) = {} THEN Return(None)
                     ELSE ParseBlock(html.scripts[Min(Usable(html))])

\* C12: when the structured extractor returns nothing and no element matched
\* by the temperature selectors holds a numeric token, _parse_weather_response
\* raises ParsingError whose message carries the cause, whatever the other
\* three extractors would find
C12_NoTemperatureIsParsingError ==
    (/\ ret.op = "parse"
     /\ extract_weather_from_json(html).val = None
     /\ ~ html.temp.found)
        => ret.res = Raise("ParsingError",
                           <<"Failed to parse weather data: ",
                             "Could not extract temperature from page">>)

\* the parse ran on a page without a structured reading and without a
\* temperature, whose text holds "Partly Cloudy", a humidity and a wind speed
C12_Witness ==
    /\ ret.op = "parse"
    /\ ret.res.kind = "raise"
    /\ extract_weather_from_json(html).val = None
    /\ ~ html.temp.found
    /\ html.cond = "Partly Cloudy"
    /\ html.humidity.found /\ html.humidity.v \in 0..100
    /\ html.wind.found

(***************************************************************************)
(* Properties of the structured extractor on well-formed blocks            *)
(* (SpecExtract)                                                           *)
(***************************************************************************)
\* the blocks whose hourly list is not empty
WithHourly(doc) ==
    {i \in 1..Len(doc.scripts) :
        doc.scripts[i].shape = "hourly" /\ Len(doc.scripts[i].hourly) > 0}

\* C11: on well-formed blocks the result of _extract_weather_from_json is
\* built from the first entry of the hourly list of the first block, in
\* document order, whose hourly list is not empty; later blocks and later
\* entries do not influence it, and it is None when no block has such a list
C11_FirstBlockFirstEntry ==
    ret.op = "extract_json" =>
        ret.res =
            IF WithHourly(html) = {} THEN Return(None)
            ELSE LET first == html.scripts[Min(WithHourly(html))]
                 IN  ParseBlock([shape |-> "hourly", hourly |-> <<first.hourly[1]>>])

\* the extractor ran on a document of two blocks with hourly lists of two
\* entries each, all four entries different from the first
C11_Witness ==
    /\ ret.op = "extract_json"
    /\ ret.res.kind = "return" /\ ret.res.val # None
    /\ Len(html.scripts) = 2
    /\ \A i \in 1..2 : /\ html.scripts[i].shape = "hourly"
                        /\ Len(html.scripts[i].hourly) = 2
    /\ html.scripts[1].hourly[2] # html.scripts[1].hourly[1]
    /\ \A j \in 1..2 : html.scripts[2].hourly[j] # html.scripts[1].hourly[1]

(***************************************************************************)
(* Properties of the retry wrapper (SpecClient)                            *)
(***************************************************************************)
ClientOps == {"get_weather", "async_get_weather"}

ClientOf(op) == IF op = "get_weather" THEN "sync" ELSE "async"

Parsed == parse_weather_response(html, Seattle).res

\* C3: two transport errors followed by a successful fetch of a page that
\* can be parsed end in the parsed reading
C3_ThirdAttemptSucceeds ==
    (/\ ret.op \in ClientOps
     /\ fetches[1].kind = "error" /\ fetches[2].kind = "error"
     /\ fetches[3].kind = "ok"
     /\ Parsed.kind = "return")
        => ret.res = Parsed

\* C4: no invocation makes more than 3 fetches, and transport errors on all
\* of them end, after exactly 3 fetches, in UpstreamError with the
\* description of the last error
C4_ExhaustedRetries ==
    ret.op \in ClientOps =>
        /\ ret.attempts <= 3
        /\ (\A i \in 1..3 : fetches[i].kind = "error") =>
              /\ ret.attempts = 3
              /\ ret.res = Raise("UpstreamError",
                                 <<"Failed to fetch weather data from MSN: ">>
                                 \o TransportError(ClientOf(ret.op), fetches[3].err).msg)

\* C6: a fetch that succeeds with a page from which no reading can be
\* extracted ends the invocation with ParsingError after that one fetch
C6_ParsingErrorNotRetried ==
    (/\ ret.op \in ClientOps
     /\ fetches[1].kind = "ok"
     /\ Parsed.kind = "raise" /\ Parsed.cls = "ParsingError")
        => (ret.res = Parsed /\ ret.attempts = 1)

\* ParsingError was raised although the collaborator had two more pages to give
C6_Witness ==
    /\ ret.op = "get_weather"
    /\ ret.res.kind = "raise" /\ ret.res.cls = "ParsingError"
    /\ ret.attempts = 1
    /\ fetches[2].kind = "ok" /\ fetches[3].kind = "ok"

(***************************************************************************)
(* Properties of the response cache (Spec)                                 *)
(***************************************************************************)
\* the step handles a weather request, whose response is last'
WeatherStep == now' = now /\ last'.op = "weather"

\* the 5-minute window an instant lies in
Window(t) == t \div 5

\* C1: a request whose key has an entry in the cache gets the entry's
\* outcome, and client.get_weather is not called for it
C1_CacheHitReplays ==
    [][WeatherStep =>
         \A i \in 1..Len(cache) :
            cache[i].key = last'.key =>
               /\ last'.outcome = cache[i].val
               /\ last'.calls = 0
               /\ ret' = NoRet]_vars

\* a success was replayed from the cache
C1_Witness ==
    /\ last.op = "weather"
    /\ last.calls = 0
    /\ last.outcome.status = 200

\* C2: the outcome a request is answered with was computed in the 5-minute
\* window in which the request arrives
C2_NoOutcomeFromAnotherWindow ==
    [][WeatherStep => Window(last'.at) = Window(now)]_vars

\* C5 (as stated): once a failure has been computed for a key, every later
\* request for that key before the clock moves gets that failure, and
\* client.get_weather is not called for it
C5_FailureReplayedInBucket ==
    [][(WeatherStep /\ frozen # NoFailure /\ frozen.key = last'.key) =>
         (last'.outcome = frozen.outcome /\ last'.calls = 0)]_vars

\* what get_cached_weather stores when client.get_weather raised
FailureOutcome(exc) ==
    [body |-> [error |-> "Failed to fetch weather data", message |-> exc.msg],
     status |-> 500]

\* C5 (amended): an exception of client.get_weather is stored under the
\* request's key as the error body with the exception's text and status 500,
\* and a request whose key has such an entry in the cache gets it, without a
\* call of client.get_weather
C5_FailureStoredAndReplayed ==
    /\ []((last.op = "weather" /\ ret.op = "get_weather" /\ ret.res.kind = "raise") =>
            /\ last.outcome = FailureOutcome(ret.res)
            /\ Len(cache) >= 1
            /\ cache[1].key = last.key
            /\ cache[1].val = last.outcome)
    /\ [][WeatherStep =>
            \A i \in 1..Len(cache) :
               (cache[i].key = last'.key /\ cache[i].val.status = 500) =>
                  /\ last'.outcome = cache[i].val
                  /\ last'.calls = 0
                  /\ cache'[1] = cache[i]]_vars

\* a failure was replayed from the cache
C5_Witness ==
    /\ last.op = "weather"
    /\ last.calls = 0
    /\ last.outcome.status = 500
    /\ last.outcome.body.error = "Failed to fetch weather data"

(***************************************************************************)
(* Properties of the coordinates endpoint (SpecCoordinates)                *)
(***************************************************************************)
\* a step that answers a request for valid coordinates
CoordinatesStep == now' = now /\ last'.op = "coordinates" /\ last'.coords # <<>>

\* C13: the cache is consulted before the pipeline for coordinate requests
\* as for name-pair requests: a coordinate request that repeats the request
\* answered just before it, in the same 5-minute window, is answered without
\* running the pipeline again
C13_RepeatedCoordinatesNotRefetched ==
    [][(/\ CoordinatesStep
        /\ last.op = "coordinates" /\ last.coords = last'.coords
        /\ Window(last.at) = Window(now))
          => last'.calls = 0]_vars

(***************************************************************************)
(* Properties of concurrent weather requests (SpecConcurrent)              *)
(***************************************************************************)
CacheKeys(c) == {c[i].key : i \in 1..Len(c)}

NoDuplicateKeys == \A i, j \in 1..Len(cache) : cache[i].key = cache[j].key => i = j

\* thread t takes a request whose key is not in the cache
MissStep(t) == inflight[t].pc = "idle" /\ inflight'[t].pc = "calling"

\* thread t finishes the call it was in
CompleteStep(t) == inflight[t].pc = "calling" /\ inflight'[t].pc = "idle"

\* a thread takes a request and answers it from the cache
HitStep == inflight' = inflight /\ last'.op = "weather" /\ last'.calls = 0

\* C14 (as stated): requests for one key that run concurrently through
\* get_cached_weather all complete with an outcome, the cache then holds
\* exactly one entry for the key, and every later request in that bucket is
\* answered with the stored outcome: once a failure was stored for a key, no
\* request for that key in the same bucket runs the pipeline
C14_ConcurrentSameKey ==
    /\ []NoDuplicateKeys
    /\ [][\A t \in Threads :
            CompleteStep(t) =>
                /\ last'.outcome.status \in {200, 500}
                /\ inflight[t].key \in CacheKeys(cache')]_vars
    /\ [][\A t \in Threads :
            (MissStep(t) /\ frozen # NoFailure) => inflight'[t].key # frozen.key]_vars

\* C14 (amended): all of them complete with an outcome, the cache then holds
\* exactly one entry for the key, an entry is not replaced while it stays in
\* the cache, and a request for a key that is in the cache is answered with
\* the stored outcome without a call
C14_ConcurrentSameKeyWhileCached ==
    /\ []NoDuplicateKeys
    /\ [][\A t \in Threads :
            CompleteStep(t) =>
                /\ last'.outcome.status \in {200, 500}
                /\ inflight[t].key \in CacheKeys(cache')]_vars
    /\ [][\A i \in 1..Len(cache) :
            cache[i].key \in CacheKeys(cache') =>
                \E j \in 1..Len(cache') : cache'[j] = cache[i]]_vars
    /\ [][\A t \in Threads : MissStep(t) => inflight'[t].key \notin CacheKeys(cache)]_vars
    /\ [][HitStep =>
            \E i \in 1..Len(cache) :
                cache[i].key = last'.key /\ cache[i].val = last'.outcome]_vars

\* two calls for one key ran at the same time and both have completed: the
\* one that finished last answered with its own outcome, which is not the
\* one the cache holds for the key
C14_Witness ==
    /\ \A t \in Threads : inflight[t].pc = "idle"
    /\ last.op = "weather" /\ last.calls = 1
    /\ \E i \in 1..Len(cache) :
          cache[i].key = last.key /\ cache[i].val # last.outcome

(***************************************************************************)
(* Properties of the cache's bound and eviction (Spec)                     *)
(***************************************************************************)
\* the entries of c other than the one for key k, in order
Without(c, k) == SelectSeq(c, LAMBDA e : e.key # k)

\* C15: the cache never holds more than maxsize entries; the key a request
\* uses becomes the most recently used one and the other entries keep their
\* order and outcomes, except that a new key arriving at capacity evicts
\* exactly one entry, the least recently used
C15_BoundedLruEviction ==
    /\ [](Len(cache) <= LruMaxSize)
    /\ [][WeatherStep =>
            /\ Len(cache') >= 1
            /\ cache'[1].key = last'.key
            /\ Tail(cache') =
                  IF last'.key \in CacheKeys(cache) THEN Without(cache, last'.key)
                  ELSE IF Len(cache) = LruMaxSize
                  THEN SubSeq(cache, 1, Len(cache) - 1)
                  ELSE cache]_vars

\* a request for a new key arrived at capacity and evicted the entry of a
\* failure stored earlier in the same window
C15_Witness ==
    /\ Len(cache) = LruMaxSize
    /\ last.op = "weather" /\ last.calls = 1
    /\ frozen # NoFailure
    /\ frozen.key \notin CacheKeys(cache)

(***************************************************************************)
(* Properties of the state the weather handlers share (Spec)               *)
(***************************************************************************)
\* C16: handling a weather request writes no shared mutable state other
\* than the response cache: the store of recent searches, which later
\* requests read, is left as it was
C16_OnlyCacheWritten ==
    [][WeatherStep => recent_searches' = recent_searches]_vars

(***************************************************************************)
(* Properties of reverse geocoding (SpecGeocode)                           *)
(***************************************************************************)
\* C17: _reverse_geocode_to_location raises LocationNotFoundError exactly
\* when the geocoder returns no result, and for a failure of the geocoder
\* raises WeatherError itself, which is no LocationNotFoundError
C17_NotFoundIsDistinct ==
    ret.op = "reverse_geocode" =>
        /\ (ret.res.kind = "raise" /\ IsInstance(ret.res.cls, "LocationNotFoundError"))
              <=> lookup.geo.kind = "none"
        /\ lookup.geo.kind = "error" =>
              /\ ret.res.kind = "raise"
              /\ ret.res.cls = "WeatherError"
              /\ ~ IsInstance(ret.res.cls, "LocationNotFoundError")
        /\ lookup.geo.kind = "found" => ret.res.kind = "return"

\* the geocoder had no result for the coordinates and
\* LocationNotFoundError came out
C17_Witness ==
    /\ ret.op = "reverse_geocode"
    /\ lookup.geo.kind = "none"
    /\ ret.res.kind = "raise" /\ ret.res.cls = "LocationNotFoundError"

CoordinateOps == {"get_weather_by_coordinates", "async_get_weather_by_coordinates"}

Located == reverse_geocode_to_location(lookup.geo, lookup.latitude, lookup.longitude)

\* C18: get_weather_by_coordinates resolves the coordinates before any
\* fetch: a failure to resolve them comes out unchanged with no fetch made,
\* and otherwise the outcome is that of get_weather for the resolved Location
C18_GeocodeBeforeFetch ==
    ret.op \in CoordinateOps =>
        IF Located.kind = "raise"
        THEN ret.attempts = 0 /\ ret.res = Located
        ELSE /\ ret.attempts >= 1
             /\ ret.res = Retrying(IF ret.op = "get_weather_by_coordinates"
                                    THEN "sync" ELSE "async",
                                    Located.val, html, fetches, 1).res
             /\ ret.res.kind = "return" => ret.res.val.location = Located.val

\* the geocoder failed for the coordinates: WeatherError came out of
\* get_weather_by_coordinates and nothing was fetched
C18_Witness ==
    /\ ret.op \in CoordinateOps
    /\ lookup.geo.kind = "error"
    /\ ret.res.kind = "raise" /\ ret.res.cls = "WeatherError"
    /\ ret.attempts = 0
    /\ fetches[1].kind = "ok"

(***************************************************************************)
(* Properties of validate_input (SpecValidate)                             *)
(***************************************************************************)
\* the positions of s that hold no whitespace
NonSpace(s) == {k \in 1..Len(s) : SubSeq(s, k, k) \notin Whitespace}

Max(S) == CHOOSE x \in S : \A y \in S : x >= y

\* s without the whitespace at its two ends: what lies between the first
\* and the last position that hold no whitespace
Trimmed(s) ==
    IF NonSpace(s) = {} THEN ""
    ELSE SubSeq(s, Min(NonSpace(s)), Max(NonSpace(s)))

\* the message of the first check that the value fails, "" when it passes
FirstFailure(value, max_length) ==
    LET Failure(t) ==
            IF t = "" THEN " cannot be empty or only whitespace"
            ELSE IF Len(t) > max_length
            THEN " exceeds maximum length of " \o ToString(max_length) \o " characters"
            ELSE IF \E k \in 1..Len(t) : SubSeq(t, k, k) \notin AllowedCharacters
            THEN " contains invalid characters"
            ELSE ""
    IN  IF value.type # "str" THEN " must be a string"
        ELSE Failure(Trimmed(value.s))

\* C20: validate_input returns either (value, None) or (None, error); it
\* succeeds iff the input is a string whose trimmed form is non-empty, at
\* most max_length long and made of allowed characters only, and then
\* returns the trimmed form; otherwise the error is that of the first
\* failing check in the order type, emptiness, length, characters
C20_ValidateInput ==
    ret.op = "validate_input" =>
        LET sanitized == ret.res.val[1]
            error     == ret.res.val[2]
            failure   == FirstFailure(args.value, args.max_length)
        IN  /\ (sanitized = None) # (error = None)
            /\ IF failure = ""
               THEN sanitized = Str(Trimmed(args.value.s)) /\ error = None
               ELSE sanitized = None /\ error = Str(args.field_name \o failure)

\* a value with whitespace around a text that is both too long and made of
\* characters that are not allowed was rejected for its length
C20_Witness ==
    /\ ret.op = "validate_input"
    /\ args.value = Str(" <<") /\ args.max_length = 1
    /\ ret.res.val[1] = None
    /\ ret.res.val[2] = Str(args.field_name \o " exceeds maximum length of 1 characters")


\* ---- properties of the validation in the handlers (SpecRequests) ----

\* the city and the country of the request in args, None when it has none
RequestField(request, key) ==
    IF request.data.json = "object" THEN Get(request.data.fields, key) ELSE None

\* missing, not a string, empty after trimming, longer than the maximum
\* after trimming, or with a character outside the allowed set
Invalid(value, max_length) == FirstFailure(value, max_length) # ""

InvalidRequest(request) ==
    \/ Invalid(RequestField(request, "city"), MAX_CITY_LENGTH)
    \/ Invalid(RequestField(request, "country"), MAX_COUNTRY_LENGTH)

\* C19: a GET or POST weather request whose city or country is missing, not
\* a string, empty after trimming, longer than 100 characters after
\* trimming, or holds a character outside the allowed set, is answered with
\* status 400 and an error body; handling it calls client.get_weather zero
\* times and leaves the cache and the store of recent searches as they were.
C19_InvalidRequestRejected ==
    [][(now' = now /\ InvalidRequest(args')) =>
          /\ last'.op = "rejected"
          /\ last'.outcome.status = 400
          /\ "error" \in DOMAIN last'.outcome.body
          /\ last'.calls = 0
          /\ ret' = NoRet
          /\ cache' = cache
          /\ recent_searches' = recent_searches
          /\ session' = session]_vars

\* a city of 101 characters is rejected while the cache and the store of
\* recent searches hold the outcome of earlier requests
C19_Witness ==
    /\ last.op = "rejected"
    /\ args.method = "GET"
    /\ RequestField(args, "city") = Str(Repeat("A", MAX_CITY_LENGTH + 1))
    /\ RequestField(args, "country") = Str("USA")
    /\ last.outcome.body.message = "city exceeds maximum length of 100 characters"
    /\ Len(cache) > 0
    /\ recent_searches # EmptyDict


(***************************************************************************)
(* Properties of the unit conversions (SpecConvert)                        *)
(***************************************************************************)
Abs(x) == IF x < 0 THEN 0 - x ELSE x

\* tenths is num / den rounded to one decimal: no other number of tenths is
\* nearer to num / den
NearestTenth(tenths, num, den) == 2 * Abs(den * tenths - 10 * num) <= den

\* C21: on the structured path the temperature is read as Fahrenheit and the
\* wind speed as mph: the reading holds round((f - 32) * 5/9, 1),
\* round(mph * 1.60934, 1) and the humidity without its percent sign;
\* temperature 72, humidity "65%", windSpeed "10" give 22.2, 65 and 16.1.
C21_StructuredConversion ==
    ret.op \in {"extract_json", "parse"} =>
        LET current == html.scripts[1].hourly[1]
            reading == ret.res.val
        IN  /\ ret.res.kind = "return"
            /\ NearestTenth(reading.temperature, (current.temperature.v - 32) * 5, 9)
            /\ NearestTenth(reading.wind_speed, current.windSpeed.v * 160934, 100000)
            /\ reading.humidity = current.humidity.v
            /\ current = GoodEntry =>
                  /\ reading.temperature = 222
                  /\ reading.humidity = 65
                  /\ reading.wind_speed = 161

\* the pipeline returned 22.2, 65 and 16.1 for 72, "65%" and "10"
C21_Witness ==
    /\ ret.op = "parse"
    /\ html.scripts[1].hourly[1] = GoodEntry
    /\ ret.res.kind = "return"
    /\ ret.res.val.type = "WeatherData"
    /\ ret.res.val.temperature = 222
    /\ ret.res.val.humidity = 65
    /\ ret.res.val.wind_speed = 161


(***************************************************************************)
(* Properties of the defaults of the heuristic path (SpecParse)            *)
(***************************************************************************)
\* the heuristic extractors ran on html
HeuristicRun == ret.op = "parse" /\ ret.heuristic

\* the humidity found in the text, if any, is one WeatherData accepts
HumidityAcceptable == html.humidity.found => html.humidity.v \in 0..100

\* C22: on the heuristic path a document with a temperature yields a reading
\* also when humidity, wind speed or condition is not found: humidity 50, wind
\* speed 0.0 and condition "Unknown" stand in for the missing fields; a
\* missing temperature is the only absence that makes the path fail.
C22_DefaultsForMissingFields ==
    HeuristicRun =>
        /\ (html.temp.found /\ HumidityAcceptable) =>
              /\ ret.res.kind = "return"
              /\ ret.res.val.type = "WeatherData"
              /\ ~ html.humidity.found => ret.res.val.humidity = 50
              /\ ~ html.wind.found => ret.res.val.wind_speed = 0
              /\ html.cond = "" => ret.res.val.condition = "Unknown"
        /\ ret.res.kind = "raise" =>
              \/ ~ html.temp.found
              \/ html.humidity.found /\ ~ HumidityAcceptable
        /\ ~ html.temp.found => ret.res.kind = "raise"

\* only the temperature was found, and the reading holds the three defaults
C22_Witness ==
    /\ HeuristicRun
    /\ html.temp.found
    /\ ~ html.humidity.found /\ ~ html.wind.found /\ html.cond = ""
    /\ ret.res.kind = "return"
    /\ ret.res.val.temperature = 222
    /\ ret.res.val.humidity = 50
    /\ ret.res.val.wind_speed = 0
    /\ ret.res.val.condition = "Unknown"


(***************************************************************************)
(* Properties of the resolved Location (SpecGeocode)                       *)
(***************************************************************************)
CityFields == <<"city", "town", "village", "county">>

\* the positions in CityFields of the fields of address that hold text
FilledCityFields(address) ==
    {i \in 1..Len(CityFields) :
        CityFields[i] \in DOMAIN address /\ address[CityFields[i]] # ""}

\* C23: when the geocoder returns an address, the city of the resolved
\* Location is the first non-empty of the fields city, town, village, county,
\* in that order, else "Unknown"; its country is the country field, or
\* "Unknown" when the address has none; its latitude and longitude are the
\* coordinates that were handed in.
C23_ResolvedLocation ==
    (ret.op = "reverse_geocode" /\ lookup.geo.kind = "found") =>
        LET address  == lookup.geo.address
            filled   == FilledCityFields(address)
            location == ret.res.val
        IN  /\ ret.res.kind = "return"
            /\ location.city = IF filled = {} THEN "Unknown"
                               ELSE address[CityFields[Min(filled)]]
            /\ location.country = IF "country" \in DOMAIN address
                                  THEN address["country"] ELSE "Unknown"
            /\ location.latitude = Float(lookup.latitude)
            /\ location.longitude = Float(lookup.longitude)

\* an address with an empty city, a town, a village and a county and no
\* country resolves to the town in country "Unknown"
C23_Witness ==
    /\ ret.op = "reverse_geocode"
    /\ lookup.geo.kind = "found"
    /\ DOMAIN lookup.geo.address = {"city", "town", "village", "county"}
    /\ lookup.geo.address["city"] = ""
    /\ lookup.geo.address["town"] = "Redmond"
    /\ lookup.geo.address["village"] = "Index"
    /\ lookup.geo.address["county"] = "King County"
    /\ lookup.latitude = -34
    /\ ret.res = Return(LocationAt("Redmond", "Unknown", -34, -122))


(***************************************************************************)
(* Properties of the shared client (Spec)                                  *)
(***************************************************************************)
\* a weather request that reached get_client() and client.get_weather
ClientStep == now' = now /\ last'.op = "weather" /\ last'.calls = 1

\* C24: the shared WeatherClient is closed only when the application shuts
\* down: while requests are served, no weather request is handled with a
\* client whose close() has already been called.
C24_NoRequestWithClosedClient ==
    [][ClientStep => ~ weather_client.closed]_vars


(***************************************************************************)
(* Properties of the temperature of a reading (SpecParse)                  *)
(***************************************************************************)
\* the hourly entry the structured extractor builds its result from
UsedEntry(doc) == doc.scripts[Min(Usable(doc))].hourly[1]

\* C25: a reading is returned only when the source document holds a
\* temperature: on the structured path the hourly entry that is used has a
\* temperature field, on the heuristic path a temperature was found; no
\* reading carries a substituted temperature.
C25_TemperaturePresent ==
    (ret.op = "parse" /\ ret.res.kind = "return") =>
        IF ret.heuristic
        THEN html.temp.found
        ELSE UsedEntry(html).temperature.k # "absent"


(***************************************************************************)
(* Properties of the recent searches (SpecRecent)                          *)
(***************************************************************************)
\* the searches the store holds for the caller's session
SearchesOf(sess, store) ==
    IF HasSearches(sess, store) THEN store[sess["id"]] ELSE <<>>

\* the first n entries of d
Take(d, n) == SubSeq(d, 1, IF Len(d) < n THEN Len(d) ELSE n)

\* the list after a lookup of entry: entry in front, the other searches behind
\* it in their order, and no more than the maximum in all
Recorded(before, entry) ==
    Take(<<entry>> \o SelectSeq(before, LAMBDA e : e # entry), RecentMaxLen)

\* C26: every session's list of recent searches holds at most the maximum
\* number of entries and no pair twice; a lookup answered with status 200
\* puts its pair in front, keeps the others in their order and drops the
\* oldest beyond the maximum; a lookup with any other status, computed or
\* replayed, leaves the list as it was; GET returns the list and DELETE
\* empties it.
C26_RecentSearches ==
    /\ [](\A id \in DOMAIN recent_searches :
             /\ Len(recent_searches[id]) <= RecentMaxLen
             /\ \A i, j \in 1..Len(recent_searches[id]) :
                   recent_searches[id][i] = recent_searches[id][j] => i = j)
    /\ [][WeatherStep =>
             IF last'.outcome.status = 200
             THEN SearchesOf(session', recent_searches') =
                      Recorded(SearchesOf(session, recent_searches),
                               [city |-> last'.key[1], country |-> last'.key[2]])
             ELSE recent_searches' = recent_searches /\ session' = session]_vars
    /\ [][(now' = now /\ last'.op = "recent_searches") =>
             /\ last'.outcome.body.recent_searches = SearchesOf(session, recent_searches)
             /\ recent_searches' = recent_searches]_vars
    /\ [][(now' = now /\ last'.op = "clear_recent_searches") =>
             SearchesOf(session', recent_searches') = <<>>]_vars

\* a failure was replayed from the cache for a pair that is not in the
\* caller's list, which is full of the pairs of earlier lookups
C26_Witness ==
    /\ last.op = "weather" /\ last.outcome.status = 500 /\ last.calls = 0
    /\ HasSearches(session, recent_searches)
    /\ Len(recent_searches[session["id"]]) = RecentMaxLen
    /\ \A j \in 1..RecentMaxLen :
          recent_searches[session["id"]][j] #
              [city |-> last.key[1], country |-> last.key[2]]


(***************************************************************************)
(* Properties of the recent searches under concurrent requests             *)
(* (SpecShared)                                                            *)
(***************************************************************************)
\* C27: whatever the interleaving of the requests of one session,
\* _add_to_recent_searches raises nothing: neither a concurrent
\* clear_recent_searches nor a concurrent add of the same pair turns a
\* successful weather lookup into an error.
C27_AddNeverRaises ==
    ret.op = "add_to_recent_searches" => ret.res.kind = "return"

====
